---- MODULE Spec2Model ----
(***************************************************************************)
(* Model of the alignment-and-projection engine of the grammar-correction  *)
(* API (src/app/processor.py):                                             *)
(*   - identify_corrections: tokenizer, difflib.Differ alignment, edit     *)
(*     grouping with context windows, final filter;                        *)
(*   - reconstruct_with_highlighting for 'html' input (tree projector).    *)
(* Texts are sequences of one-character strings, so that tokenizing,       *)
(* lower-casing, trimming and joining are computed, not assumed.           *)
(* Python indices are kept 0-based in the cursors; x[i+1] reads element i. *)
(***************************************************************************)
EXTENDS Integers, Sequences, FiniteSets, TLC

\* ------------------------------------------------------------------------
\* Bounds of the checked input space
\* ------------------------------------------------------------------------
MaxWords == 3

NumWords == 2

MaxK == 1

NumParCalls == 2

\* ------------------------------------------------------------------------
\* Characters and strings
\* ------------------------------------------------------------------------
UpperChars == <<"A", "B", "C", "D", "E", "F", "G", "H", "I", "J", "K", "L", "M",
                "N", "O", "P", "Q", "R", "S", "T", "U", "V", "W", "X", "Y", "Z">>

LowerChars == <<"a", "b", "c", "d", "e", "f", "g", "h", "i", "j", "k", "l", "m",
                "n", "o", "p", "q", "r", "s", "t", "u", "v", "w", "x", "y", "z">>

DigitChars == {"0", "1", "2", "3", "4", "5", "6", "7", "8", "9"}

WhitespaceChars == {" ", "\t", "\n", "\r"}

Range(s) == {s[i] : i \in 1..Len(s)}

\* regex class \w : letters, digits and the underscore
WordChars == Range(UpperChars) \cup Range(LowerChars) \cup DigitChars \cup {"_"}

\* the apostrophe is taken for a letter of the word around it
IsWordCharOrApostrophe(c) == c \in WordChars \cup {"'"}

IsWordChar(c) == c \in WordChars

\* the lowercase letter of every uppercase letter
ToLower == [c \in Range(UpperChars) |->
               LowerChars[CHOOSE i \in 1..Len(UpperChars) : UpperChars[i] = c]]

\* str.lower() on one character
LowerChar(c) == IF c \in DOMAIN ToLower THEN ToLower[c] ELSE c

\* variant: words are compared as written
LowerSkipped(s) == s

\* str.lower()
Lower(s) == [i \in 1..Len(s) |-> LowerChar(s[i])]

\* Python slice s[lo:hi]: a negative index counts from the end, and every
\* index is clamped to 0..len(s)
Slice(s, lo, hi) ==
    LET norm(x) == IF x < 0 THEN (IF x + Len(s) < 0 THEN 0 ELSE x + Len(s))
                   ELSE (IF x > Len(s) THEN Len(s) ELSE x)
    IN IF norm(hi) <= norm(lo) THEN <<>> ELSE SubSeq(s, norm(lo) + 1, norm(hi))

RECURSIVE LStrip(_)
LStrip(s) ==
    IF s # <<>> /\ Head(s) \in WhitespaceChars THEN LStrip(Tail(s)) ELSE s

RECURSIVE RStrip(_)
RStrip(s) ==
    IF s # <<>> /\ s[Len(s)] \in WhitespaceChars
    THEN RStrip(SubSeq(s, 1, Len(s) - 1))
    ELSE s

\* str.strip()
Strip(s) == LStrip(RStrip(s))

\* " ".join(words)
RECURSIVE Join(_)
Join(words) ==
    IF words = <<>> THEN <<>>
    ELSE IF Len(words) = 1 THEN words[1]
    ELSE words[1] \o <<" ">> \o Join(Tail(words))

Max(x, y) == IF x >= y THEN x ELSE y

Min(x, y) == IF x <= y THEN x ELSE y

\* ------------------------------------------------------------------------
\* Tokenizer: re.findall(r'(\b\w+\b|\W+)', text)
\* ------------------------------------------------------------------------
\* length of the maximal run of characters of one class starting at s[1]
RECURSIVE RunOf(_, _)
RunOf(s, isWord) ==
    IF s # <<>> /\ IsWordChar(Head(s)) = isWord
    THEN 1 + RunOf(Tail(s), isWord)
    ELSE 0

\* the token stream: maximal runs of \w, alternating with maximal runs of \W
RECURSIVE FindAllTokens(_)
FindAllTokens(text) ==
    IF text = <<>> THEN <<>>
    ELSE LET n == RunOf(text, IsWordChar(Head(text)))
         IN <<SubSeq(text, 1, n)>> \o FindAllTokens(SubSeq(text, n + 1, Len(text)))

\* re.fullmatch(r'\b\w+\b', token)
IsWordToken(token) == token # <<>> /\ \A i \in 1..Len(token) : IsWordChar(token[i])

\* variant: the word list keeps the case of the text
WordsOfKeepingCase(text) == SelectSeq(FindAllTokens(text), IsWordToken)

\* [token.lower() for token in tokens_with_sep if re.fullmatch(r'\b\w+\b', token)]
WordsOf(text) ==
    LET toks == FindAllTokens(text)
        ws == SelectSeq(toks, IsWordToken)
    IN [i \in 1..Len(ws) |-> Lower(ws[i])]

\* ------------------------------------------------------------------------
\* difflib.SequenceMatcher (no junk; autojunk needs 200 or more elements)
\* ------------------------------------------------------------------------
\* length of the common run of a[i:ahi] and b[j:bhi] starting at (i, j)
RECURSIVE RunLength(_, _, _, _, _, _)
RunLength(a, b, i, j, ahi, bhi) ==
    IF i < ahi /\ j < bhi /\ a[i + 1] = b[j + 1]
    THEN 1 + RunLength(a, b, i + 1, j + 1, ahi, bhi)
    ELSE 0

SetMax(S) == CHOOSE x \in S : \A y \in S : y <= x

SetMin(S) == CHOOSE x \in S : \A y \in S : x <= y

\* SequenceMatcher.find_longest_match: the longest block; of those the one
\* starting earliest in a; of those the one starting earliest in b
find_longest_match(a, b, alo, ahi, blo, bhi) ==
    LET cand == {p \in (alo..(ahi - 1)) \X (blo..(bhi - 1)) : a[p[1] + 1] = b[p[2] + 1]}
    IN IF cand = {} THEN <<alo, blo, 0>>
       ELSE LET size(p) == RunLength(a, b, p[1], p[2], ahi, bhi)
                best == SetMax({size(p) : p \in cand})
                besti == SetMin({p[1] : p \in {q \in cand : size(q) = best}})
                bestj == SetMin({p[2] : p \in {q \in cand : size(q) = best /\ q[1] = besti}})
            IN <<besti, bestj, best>>

\* SequenceMatcher.get_matching_blocks restricted to a[alo:ahi], b[blo:bhi]:
\* the longest block, then recursively the pieces to its left and right
RECURSIVE matching_blocks(_, _, _, _, _, _)
matching_blocks(a, b, alo, ahi, blo, bhi) ==
    LET m == find_longest_match(a, b, alo, ahi, blo, bhi)
        i == m[1]
        j == m[2]
        k == m[3]
    IN IF k = 0 THEN <<>>
       ELSE (IF alo < i /\ blo < j THEN matching_blocks(a, b, alo, i, blo, j) ELSE <<>>)
            \o <<m>>
            \o (IF i + k < ahi /\ j + k < bhi
                THEN matching_blocks(a, b, i + k, ahi, j + k, bhi) ELSE <<>>)

\* all matching blocks followed by the sentinel (len(a), len(b), 0)
get_matching_blocks(a, b) ==
    matching_blocks(a, b, 0, Len(a), 0, Len(b)) \o <<<<Len(a), Len(b), 0>>>>

RECURSIVE SumSizes(_)
SumSizes(blocks) ==
    IF blocks = <<>> THEN 0 ELSE Head(blocks)[3] + SumSizes(Tail(blocks))

\* number of matched elements, the M of ratio() = 2.0 * M / T
Matches(a, b) == SumSizes(get_matching_blocks(a, b))

\* ------------------------------------------------------------------------
\* difflib.Differ.compare
\* ------------------------------------------------------------------------
Op(code, token) == [code |-> code, token |-> token]

\* Differ._dump(tag, x, lo, hi)
Dump(tag, x, lo, hi) == [n \in 1..Max(0, hi - lo) |-> Op(tag, x[lo + n])]

\* variant: the two blocks are dumped under each other's tag
plain_replace_swapped(a, alo, ahi, b, blo, bhi) ==
    IF bhi - blo < ahi - alo
    THEN Dump("-", b, blo, bhi) \o Dump("+", a, alo, ahi)
    ELSE Dump("+", a, alo, ahi) \o Dump("-", b, blo, bhi)

\* Differ._plain_replace: the shorter block is dumped first
plain_replace(a, alo, ahi, b, blo, bhi) ==
    IF bhi - blo < ahi - alo
    THEN Dump("+", b, blo, bhi) \o Dump("-", a, alo, ahi)
    ELSE Dump("-", a, alo, ahi) \o Dump("+", b, blo, bhi)

\* ratio(x, y) > 0.74, the initial best_ratio
IsClose(x, y) == 200 * Matches(x, y) > 74 * (Len(x) + Len(y))

\* ratio(x1, y1) > ratio(x2, y2), compared as exact fractions
RatioGreater(x1, y1, x2, y2) ==
    Matches(x1, y1) * (Len(x2) + Len(y2)) > Matches(x2, y2) * (Len(x1) + Len(y1))

\* the '-', '?', '+', '?' quad of Differ._qformat for a synched pair; a '?'
\* guide line is emitted only when its tag string is not blank, i.e. when
\* some character of that element is outside every matching block
QuadOf(aelt, belt) ==
    <<Op("-", aelt)>>
    \o (IF Matches(aelt, belt) < Len(aelt) THEN <<Op("?", <<>>)>> ELSE <<>>)
    \o <<Op("+", belt)>>
    \o (IF Matches(aelt, belt) < Len(belt) THEN <<Op("?", <<>>)>> ELSE <<>>)

\* Differ._fancy_replace together with Differ._fancy_helper
RECURSIVE fancy_replace(_, _, _, _, _, _)
fancy_replace(a, alo, ahi, b, blo, bhi) ==
    LET pairs == (alo..(ahi - 1)) \X (blo..(bhi - 1))
        \* iteration order: j outer, i inner
        Before(p, q) == p[2] < q[2] \/ (p[2] = q[2] /\ p[1] < q[1])
        First(S) == CHOOSE p \in S : \A q \in S : q = p \/ Before(p, q)
        eq == {p \in pairs : a[p[1] + 1] = b[p[2] + 1]}
        close == {p \in pairs \ eq : IsClose(a[p[1] + 1], b[p[2] + 1])}
        top == {p \in close : \A q \in close :
                    ~RatioGreater(a[q[1] + 1], b[q[2] + 1], a[p[1] + 1], b[p[2] + 1])}
        helper(lo1, hi1, lo2, hi2) ==
            IF lo1 < hi1
            THEN IF lo2 < hi2 THEN fancy_replace(a, lo1, hi1, b, lo2, hi2)
                 ELSE Dump("-", a, lo1, hi1)
            ELSE Dump("+", b, lo2, hi2)
    IN IF close = {} /\ eq = {} THEN plain_replace(a, alo, ahi, b, blo, bhi)
       ELSE LET best == IF close = {} THEN First(eq) ELSE First(top)
                synch == IF close = {}
                         THEN <<Op(" ", a[best[1] + 1])>>
                         ELSE QuadOf(a[best[1] + 1], b[best[2] + 1])
            IN helper(alo, best[1], blo, best[2])
               \o synch
               \o helper(best[1] + 1, ahi, best[2] + 1, bhi)

\* the opcodes of SequenceMatcher.get_opcodes, dumped as Differ.compare does:
\* the gap before each matching block (replace, delete or insert), then the
\* block itself; (i, j) is the position reached so far
RECURSIVE DumpOpcodes(_, _, _, _, _)
DumpOpcodes(a, b, blocks, i, j) ==
    IF blocks = <<>> THEN <<>>
    ELSE LET ai == Head(blocks)[1]
             bj == Head(blocks)[2]
             size == Head(blocks)[3]
             gap == IF i < ai /\ j < bj THEN fancy_replace(a, i, ai, b, j, bj)
                    ELSE IF i < ai THEN Dump("-", a, i, ai)
                    ELSE IF j < bj THEN Dump("+", b, j, bj)
                    ELSE <<>>
         IN gap \o Dump(" ", a, ai, ai + size)
            \o DumpOpcodes(a, b, Tail(blocks), ai + size, bj + size)

\* list(Differ().compare(a, b))
Compare(a, b) == DumpOpcodes(a, b, get_matching_blocks(a, b), 0, 0)

\* ------------------------------------------------------------------------
\* identify_corrections: edit grouping and context windows
\* ------------------------------------------------------------------------
\* variant: every word of a run gets the cursor after the run
OrigIndexOfGroup(original_word_index, original_buffer) ==
    Max(0, original_word_index - 1)

\* orig_index_in_words, computed after orig was popped from original_buffer
OrigIndexInWords(original_word_index, original_buffer) ==
    Max(0, IF original_buffer # <<>>
           THEN original_word_index - Len(original_buffer) - 1
           ELSE original_word_index - 1)

\* corr_index_in_words, computed after corr was popped from corrected_buffer
CorrIndexInWords(corrected_word_index, corrected_buffer) ==
    Max(0, IF corrected_buffer # <<>>
           THEN corrected_word_index - Len(corrected_buffer) - 1
           ELSE corrected_word_index - 1)

\* original_context_start / corrected_context_start
ContextStart(index_in_words, k) == Max(0, index_in_words - k)

\* variant: the window end without the clamp to len(words)
ContextEndUnclamped(words, index_in_words, k) == index_in_words + 1 + k

\* original_context_end / corrected_context_end; len([orig]) is 1
ContextEnd(words, index_in_words, k) == Min(Len(words), index_in_words + 1 + k)

\* " ".join(words[context_start:context_end])
ContextOf(words, index_in_words, k) ==
    Join(Slice(words, ContextStart(index_in_words, k), ContextEnd(words, index_in_words, k)))

Correction(ow, cw, oc, cc) ==
    [original_word |-> ow, corrected_word |-> cw,
     original_context |-> oc, corrected_context |-> cc]

\* the test guarding corrections.append in both drain loops
IsMeaningful(orig, corr, original_context, corrected_context) ==
    /\ Strip(orig) # Strip(corr)
    /\ (Strip(orig) # <<>> \/ Strip(corr) # <<>>)
    /\ Strip(original_context) # Strip(corrected_context)

\* the loop "while original_buffer or corrected_buffer": pops one word of
\* each buffer (or '' when a buffer is exhausted), computes the two context
\* windows and appends the pair; returns the corrections list after the loop
RECURSIVE Drain(_, _, _, _, _, _, _, _)
Drain(ob, cb, owi, cwi, ow, cw, k, acc) ==
    IF ob = <<>> /\ cb = <<>> THEN acc
    ELSE LET orig == IF ob # <<>> THEN Head(ob) ELSE <<>>
             corr == IF cb # <<>> THEN Head(cb) ELSE <<>>
             ob2 == IF ob # <<>> THEN Tail(ob) ELSE ob
             cb2 == IF cb # <<>> THEN Tail(cb) ELSE cb
             oidx == OrigIndexInWords(owi, ob2)
             cidx == CorrIndexInWords(cwi, cb2)
             original_context == IF orig # <<>> THEN ContextOf(ow, oidx, k)
                                 ELSE ContextOf(cw, cidx, k)
             corrected_context == IF corr # <<>> THEN ContextOf(cw, cidx, k)
                                  ELSE ContextOf(ow, oidx, k)
             changed == orig # corr \/ (orig = <<>> /\ corr # <<>>)
                                    \/ (orig # <<>> /\ corr = <<>>)
             acc2 == IF changed /\ IsMeaningful(orig, corr, original_context, corrected_context)
                     THEN Append(acc, Correction(Strip(orig), Strip(corr),
                                                 original_context, corrected_context))
                     ELSE acc
         IN Drain(ob2, cb2, owi, cwi, ow, cw, k, acc2)

\* the condition of the final filter
IsKept(corr_dict) ==
    /\ corr_dict.original_word # corr_dict.corrected_word
    /\ (corr_dict.original_word # <<>> \/ corr_dict.corrected_word # <<>>)
    /\ corr_dict.original_context # corr_dict.corrected_context
    /\ Strip(corr_dict.original_word) # <<>>
    /\ Strip(corr_dict.corrected_word) # <<>>

\* variant: the final filter also drops an entry equal to an earlier one
RECURSIVE FinalFilterDeduplicating(_)
FinalFilterDeduplicating(corrs) ==
    IF corrs = <<>> THEN <<>>
    ELSE LET front == FinalFilterDeduplicating(SubSeq(corrs, 1, Len(corrs) - 1))
             last == corrs[Len(corrs)]
         IN IF IsKept(last) /\ \A i \in 1..Len(front) : front[i] # last
            THEN Append(front, last) ELSE front

\* variant: the final filter rebuilds every kept entry and copies the original
\* word into both word fields
FinalFilterCopyingWord(corrs) ==
    LET kept == SelectSeq(corrs, IsKept)
    IN [i \in 1..Len(kept) |-> [kept[i] EXCEPT !.corrected_word = kept[i].original_word]]

\* cleaned_corrections: the kept entries, in order
FinalFilter(corrs) == SelectSeq(corrs, IsKept)

\* ------------------------------------------------------------------------
\* State: the frame of every identify_corrections invocation in progress
\* ------------------------------------------------------------------------
VARIABLES
    original_text,          \* argument, per invocation
    corrected_text,         \* argument
    context_words,          \* argument
    pc,                     \* position of the invocation in the function body
    original_words,         \* lowercase words of original_text
    corrected_words,        \* lowercase words of corrected_text
    diff,                   \* list(differ.compare(original_words, corrected_words))
    pos,                    \* number of items of diff the for loop has consumed
    original_buffer,
    corrected_buffer,
    original_word_index,
    corrected_word_index,
    corrections,
    result,                 \* the returned list
    differ_calls,           \* how many times the invocation ran Differ.compare
    \* reconstruct_with_highlighting, input_type 'html'
    rc_pc,                  \* position in the function body
    variant,                \* which module's function runs: app/processor.py
                            \* or googlecolab.py
    html_input,             \* the tree as it was passed in
    rc_corrections,         \* argument: the corrections list
    soup,                   \* the tree, mutated in place
    text_nodes,             \* soup.find_all(string=True), ids in document order
    node_i,                 \* number of text nodes the for loop has visited
    words_set,              \* original_corrected_words_set
    next_id,                \* identity of the next node object created
    rc_result,              \* the returned value
    \* reconstruct_with_highlighting, input_type 'image'
    img_pc,                 \* position in the function body
    image_loads,            \* whether Image.open(original_content) succeeds
    img_corrections,        \* argument: the corrections list
    original_ocr_results,   \* argument: the detections, or None
    img_words_set,          \* original_corrected_words_set
    det_i,                  \* number of detections the for loop has visited
    words_left,             \* words of the set the inner loop has yet to visit
    rectangles,             \* the rectangles drawn on the image, in order
    img_result,             \* the returned value
    \* process_input on an image file
    pi_pc,                  \* position in the function body
    input_source_path,      \* the argument: what is at the path and its extension
    file_kind,              \* what handle_input finds at the path
    ocr_reader,             \* state of the recognition engine
    engine_output,          \* the detections the engine finds in the image
    readtext_calls,         \* how many times ocr_reader.readtext was invoked
    events,                 \* the collaborators invoked so far, in order
    extracted_texts,        \* local: the texts of the detections
    pi_ocr_results,         \* local original_ocr_results: the list and the
                            \* readtext call that returned it
    text_to_correct,        \* local
    pi_corrected_text,      \* local corrected_text
    highlight_list,         \* the readtext call whose list was handed to
                            \* reconstruct_with_highlighting
    response,               \* the returned dictionary
    \* the task process_grammar_correction
    task_pc,                \* where the task is: queued, in its body, ended
    request_retries,        \* self.request.retries of the current attempt
    task_attempts,          \* what each attempt so far ran into, in order
    task_exc,               \* the exception the body has raised
    task_outcome,           \* how the task ended
    \* ZipHandler.process_zip_file and extract_and_validate
    zip_pc,                 \* position in the two function bodies
    zip_path,               \* the file at the path: what it is, its members
    zip_i,                  \* number of members the for loop has visited
    extracted_files,        \* the returned list, members named by filename
    metadata,               \* the metadata dictionary
    zip_results,            \* results of process_zip_file, one per file
    zip_response,           \* how process_zip_file ended
    \* CacheManager
    cache_config,           \* ENABLE_CACHING and whether there is a Redis client
    redis_store,            \* the entries Redis holds: key -> stored string
    cache_stats,            \* self.cache_stats
    cache_calls,            \* number of calls made so far
    cache_last,             \* the last call and what it returned
    \* CircuitBreakerMiddleware
    failures,               \* self.failures: endpoint -> count
    last_failure_time,      \* self.last_failure_time: endpoint -> time
    circuit_open,           \* self.circuit_open: endpoint -> bool
    cb_now,                 \* time.time()
    cb_in_flight,           \* endpoint -> requests waiting in call_next
    cb_arrivals,            \* endpoint -> requests that entered dispatch
    cb_rejected,            \* endpoint -> requests answered with 503
    cb_log,                 \* endpoint -> what was recorded for it, in order
    \* RateLimitMiddleware
    requests,               \* self.requests: client -> request times
    rl_now,                 \* time.time()
    rl_admitted,            \* client -> times of all its requests that went
                            \* on to call_next on a limited path
    rl_rejected,            \* client -> number of its requests answered 429
    rl_count,               \* number of requests that entered dispatch
    rl_last                 \* the last request and how dispatch answered it

icVars == <<original_text, corrected_text, context_words, pc, original_words,
            corrected_words, diff, pos, original_buffer, corrected_buffer,
            original_word_index, corrected_word_index, corrections, result,
            differ_calls>>

rcVars == <<rc_pc, variant, html_input, rc_corrections, soup, text_nodes, node_i,
            words_set, next_id, rc_result>>

imgVars == <<img_pc, image_loads, img_corrections, original_ocr_results,
             img_words_set, det_i, words_left, rectangles, img_result>>

piVars == <<pi_pc, input_source_path, file_kind, ocr_reader, engine_output, readtext_calls, events,
            extracted_texts, pi_ocr_results, text_to_correct, pi_corrected_text,
            highlight_list, response>>

taskVars == <<task_pc, request_retries, task_attempts, task_exc, task_outcome>>

zipVars == <<zip_pc, zip_path, zip_i, extracted_files, metadata, zip_results,
             zip_response>>

cacheVars == <<cache_config, redis_store, cache_stats, cache_calls, cache_last>>

cbVars == <<failures, last_failure_time, circuit_open, cb_now, cb_in_flight,
            cb_arrivals, cb_rejected, cb_log>>

rlVars == <<requests, rl_now, rl_admitted, rl_rejected, rl_count, rl_last>>

svcVars == <<taskVars, zipVars, cacheVars, cbVars, rlVars>>

vars == <<icVars, rcVars, imgVars, piVars, svcVars>>

\* no reconstruct_with_highlighting call in progress
RcIdle ==
    /\ rc_pc = "idle"
    /\ variant = "processor"
    /\ html_input = <<>>
    /\ rc_corrections = <<>>
    /\ soup = <<>>
    /\ text_nodes = <<>>
    /\ node_i = 0
    /\ words_set = {}
    /\ next_id = 1
    /\ rc_result = "none"

\* the extraction has not run: no list, from no readtext call
NoResults == [call |-> 0, items |-> <<>>]

\* the function has not returned
NoResponse ==
    [success |-> FALSE, kind |-> "none", corrections_count |-> 0, input_type |-> "",
     error |-> ""]

\* no process_input run in progress
PiIdle ==
    /\ pi_pc = "idle"
    /\ input_source_path = [is_file |-> TRUE, extension |-> <<>>]
    /\ file_kind = "image"
    /\ ocr_reader = "ready"
    /\ engine_output = <<>>
    /\ readtext_calls = 0
    /\ events = <<>>
    /\ extracted_texts = <<>>
    /\ pi_ocr_results = NoResults
    /\ text_to_correct = <<>>
    /\ pi_corrected_text = <<>>
    /\ highlight_list = 0
    /\ response = NoResponse

\* no task has been sent
TaskIdle ==
    /\ task_pc = "idle"
    /\ request_retries = 0
    /\ task_attempts = <<>>
    /\ task_exc = "None"
    /\ task_outcome = "none"

\* metadata as extract_and_validate creates it
NewMetadata ==
    [total_files |-> 0, valid_files |-> 0, skipped_files |-> 0, total_size |-> 0,
     errors |-> <<>>]

\* process_zip_file has not returned
NoZipResponse == [outcome |-> "none", success |-> FALSE, error |-> ""]

\* no archive is being processed
ZipIdle ==
    /\ zip_pc = "idle"
    /\ zip_path = [kind |-> "zip", members |-> <<>>]
    /\ zip_i = 0
    /\ extracted_files = <<>>
    /\ metadata = NewMetadata
    /\ zip_results = <<>>
    /\ zip_response = NoZipResponse

\* the cache types and their key prefixes
CacheTypes == {"text", "model", "ocr", "partial", "result"}

\* self.cache_stats as __init__ creates it: there is no counter of hits
\* for the type 'result'
NewCacheStats ==
    [hits |-> 0, misses |-> 0,
     type_hits |-> [t \in {"text", "model", "ocr", "partial"} |-> 0]]

\* no call has been made
NoCacheCall == [op |-> "none", type |-> "", id |-> "", returned |-> "None"]

\* a cache manager that is not used
CacheIdle ==
    /\ cache_config = [ENABLE_CACHING |-> FALSE, redis_client |-> FALSE]
    /\ redis_store = <<>>
    /\ cache_stats = NewCacheStats
    /\ cache_calls = 0
    /\ cache_last = NoCacheCall

\* f"{request.method}:{request.url.path}"
Endpoints == {"POST:/process", "GET:/status"}

\* the middleware as __init__ creates it (the defaultdicts give 0, 0.0 and
\* False for an endpoint not seen yet)
NewCircuitBreaker ==
    /\ failures = [e \in Endpoints |-> 0]
    /\ last_failure_time = [e \in Endpoints |-> 0]
    /\ circuit_open = [e \in Endpoints |-> FALSE]
    /\ cb_in_flight = [e \in Endpoints |-> 0]
    /\ cb_arrivals = [e \in Endpoints |-> 0]
    /\ cb_rejected = [e \in Endpoints |-> 0]
    /\ cb_log = [e \in Endpoints |-> <<>>]

\* a circuit breaker no request goes through
CbIdle == NewCircuitBreaker /\ cb_now = 0

\* request.client.host
Clients == {"10.0.0.1", "10.0.0.2"}

\* no request has entered dispatch
NoRequest == [client |-> "", path |-> "", status |-> 0]

\* the middleware as __init__ creates it (the defaultdict gives [] for a
\* client not seen yet)
NewRateLimiter ==
    /\ requests = [c \in Clients |-> <<>>]
    /\ rl_admitted = [c \in Clients |-> <<>>]
    /\ rl_rejected = [c \in Clients |-> 0]
    /\ rl_count = 0
    /\ rl_last = NoRequest

\* a rate limiter no request goes through
RlIdle == NewRateLimiter /\ rl_now = 0

SvcIdle == TaskIdle /\ ZipIdle /\ CacheIdle /\ CbIdle /\ RlIdle

\* original_ocr_results=None
NoDetections == [supplied |-> FALSE, items |-> <<>>]

\* no image highlighting call in progress
ImgIdle ==
    /\ img_pc = "idle"
    /\ image_loads = TRUE
    /\ img_corrections = <<>>
    /\ original_ocr_results = NoDetections
    /\ img_words_set = {}
    /\ det_i = 0
    /\ words_left = {}
    /\ rectangles = <<>>
    /\ img_result = "none"

\* the invocations
Calls == DOMAIN pc

\* variant: the buffers are kept on the singleton processor instance
SharedFrame(c) == 1

\* the frame holding the buffers of invocation c: they are local variables,
\* so every invocation has its own
FrameOf(c) == c

Upd(f, c, v) == [f EXCEPT ![c] = v]

\* ------------------------------------------------------------------------
\* Inputs
\* ------------------------------------------------------------------------
ToUpper == [c \in Range(LowerChars) |->
               UpperChars[CHOOSE i \in 1..Len(LowerChars) : LowerChars[i] = c]]

UpperChar(c) == IF c \in DOMAIN ToUpper THEN ToUpper[c] ELSE c

WordPool == {<<LowerChars[i]>> : i \in 1..NumWords}

WordSeqs == UNION {[1..n -> WordPool] : n \in 0..MaxWords}

\* three ways of writing the same words down
RenderPlain(ws) == Join(ws)

RECURSIVE RenderSentence(_)
RenderSentence(ws) ==
    IF ws = <<>> THEN <<>>
    ELSE IF Len(ws) = 1 THEN <<UpperChar(ws[1][1])>> \o Tail(ws[1]) \o <<".">>
    ELSE <<UpperChar(ws[1][1])>> \o Tail(ws[1]) \o <<",", " ">> \o RenderSentence(Tail(ws))

RenderPadded(ws) == <<" ">> \o Join(ws) \o <<"\n">>

Input(o, c, k) == [original_text |-> o, corrected_text |-> c, context_words |-> k]

\* every pair of word sequences, the original capitalised and punctuated,
\* the correction plain; and every text with itself and with a copy that is
\* surrounded by whitespace
GenericInputs ==
    {Input(RenderSentence(ws1), RenderPlain(ws2), k) :
        ws1 \in WordSeqs, ws2 \in WordSeqs, k \in 0..MaxK}
    \cup {Input(RenderSentence(ws), RenderSentence(ws), k) : ws \in WordSeqs, k \in 0..MaxK}
    \cup {Input(RenderPlain(ws), RenderPadded(ws), k) : ws \in WordSeqs, k \in 0..MaxK}

Scenario1Original ==
    <<"T", "h", "i", "s", " ", "a", "r", "e", " ", "a", " ", "t", "e", "s",
      "t", ".">>

Scenario1Corrected ==
    <<"T", "h", "i", "s", " ", "i", "s", " ", "a", " ", "t", "e", "s", "t",
      ".">>

Scenario2Text ==
    <<"S", "a", "m", "e", " ", "t", "e", "x", "t", " ", "h", "e", "r", "e",
      ".">>

Scenario3Original ==
    <<"I", " ", "d", "o", "n", "t", " ", "k", "n", "o", "w", ".">>

Scenario3Corrected ==
    <<"I", " ", "d", "o", "n", "'", "t", " ", "k", "n", "o", "w", ".">>

CloseOriginal ==
    <<"d", "o", "n", "t", " ", "k", "n", "o", "w", " ", "i", "t">>

CloseCorrected ==
    <<"d", "n", "t", " ", "k", "n", "w", " ", "i">>

RepeatOriginal ==
    <<"a", " ", "b", " ", "x", " ", "a", " ", "b">>

RepeatCorrected ==
    <<"c", " ", "b", " ", "x", " ", "c", " ", "b">>

TwoRunsOriginal ==
    <<"a", " ", "b", " ", "m", " ", "c", " ", "d">>

TwoRunsCorrected ==
    <<"x", " ", "y", " ", "m", " ", "z", " ", "w">>

GreedyOriginal ==
    <<"a", " ", "b", " ", "a">>

GreedyCorrected ==
    <<"b", " ", "c", " ", "a">>

MixedOriginal ==
    <<"a", " ", "m", " ", "x", " ", "y">>

MixedCorrected ==
    <<"z", " ", "a", " ", "m", " ", "w">>

\* the scenarios of the specification and inputs with longer edit runs
ScenarioInputs ==
    {Input(Scenario1Original, Scenario1Corrected, 2),
     Input(Scenario2Text, Scenario2Text, 3),
     Input(Scenario3Original, Scenario3Corrected, 1),
     Input(TwoRunsOriginal, TwoRunsCorrected, 1),
     Input(CloseOriginal, CloseCorrected, 1),
     Input(RepeatOriginal, RepeatCorrected, 1),
     Input(RepeatOriginal, RepeatCorrected, 0),
     Input(GreedyOriginal, GreedyCorrected, 1),
     Input(MixedOriginal, MixedCorrected, 1),
     Input(MixedCorrected, MixedOriginal, 0)}

Inputs == GenericInputs \cup ScenarioInputs

\* callers pass a negative context_words down to -MaxNegativeK
MaxNegativeK == 2

FarOriginal == <<"a", " ", "b", " ", "c", " ", "d">>

FarCorrected == <<"e", " ", "b", " ", "f", " ", "d">>

\* calls with a negative context_words: the scenario texts and a pair of
\* texts with edits three words apart
NegativeInputs ==
    {Input(i.original_text, i.corrected_text, k) : i \in ScenarioInputs, k \in (-MaxNegativeK)..(-1)}
        \cup {Input(FarOriginal, FarCorrected, k) : k \in (-MaxNegativeK)..(-1)}

\* inputs of the invocations that run side by side
ParInputs ==
    {Input(Scenario1Original, Scenario1Corrected, 2),
     Input(Scenario2Text, Scenario2Text, 3),
     Input(CloseOriginal, CloseCorrected, 1),
     Input(RepeatOriginal, RepeatCorrected, 0),
     Input(RenderSentence(<<<<"a">>, <<"b">>>>), RenderPlain(<<<<"a">>, <<"b">>>>), 1)}

\* ------------------------------------------------------------------------
\* Init: every invocation has been entered with its arguments bound
\* ------------------------------------------------------------------------
InitCalls(calls, inputs) ==
    /\ \E args \in [calls -> inputs] :
          /\ original_text = [c \in calls |-> args[c].original_text]
          /\ corrected_text = [c \in calls |-> args[c].corrected_text]
          /\ context_words = [c \in calls |-> args[c].context_words]
    /\ pc = [c \in calls |-> "called"]
    /\ original_words = [c \in calls |-> <<>>]
    /\ corrected_words = [c \in calls |-> <<>>]
    /\ diff = [c \in calls |-> <<>>]
    /\ pos = [c \in calls |-> 0]
    /\ original_buffer = [c \in calls |-> <<>>]
    /\ corrected_buffer = [c \in calls |-> <<>>]
    /\ original_word_index = [c \in calls |-> 0]
    /\ corrected_word_index = [c \in calls |-> 0]
    /\ corrections = [c \in calls |-> <<>>]
    /\ result = [c \in calls |-> <<>>]
    /\ differ_calls = [c \in calls |-> 0]

Init == InitCalls({1}, Inputs) /\ RcIdle /\ ImgIdle /\ PiIdle /\ SvcIdle

InitPar == InitCalls(1..NumParCalls, ParInputs) /\ RcIdle /\ ImgIdle /\ PiIdle /\ SvcIdle

InitNegative == InitCalls({1}, NegativeInputs) /\ RcIdle /\ ImgIdle /\ PiIdle /\ SvcIdle

\* ------------------------------------------------------------------------
\* Actions of identify_corrections
\* ------------------------------------------------------------------------
\* variant: the quick check compares the texts without strip()
TextsIdenticalRaw(c) == original_text[c] = corrected_text[c]

\* original_text.strip() == corrected_text.strip()
TextsIdentical(c) == Strip(original_text[c]) = Strip(corrected_text[c])

\* the quick check: identical after strip(), return []
FastPath(c) ==
    /\ pc[c] = "called"
    /\ TextsIdentical(c)
    /\ result' = Upd(result, c, <<>>)
    /\ pc' = Upd(pc, c, "done")
    /\ UNCHANGED <<original_text, corrected_text, context_words, original_words,
                   corrected_words, diff, pos, original_buffer, corrected_buffer,
                   original_word_index, corrected_word_index, corrections,
                   differ_calls>>
    /\ UNCHANGED <<rcVars, imgVars, piVars, svcVars>>

\* tokenize both texts, diff the word lists, initialise buffers and cursors
Align(c) ==
    /\ pc[c] = "called"
    /\ ~TextsIdentical(c)
    /\ LET ow == WordsOf(original_text[c])
           cw == WordsOf(corrected_text[c])
       IN /\ original_words' = Upd(original_words, c, ow)
          /\ corrected_words' = Upd(corrected_words, c, cw)
          /\ diff' = Upd(diff, c, Compare(ow, cw))
    /\ differ_calls' = Upd(differ_calls, c, differ_calls[c] + 1)
    /\ corrections' = Upd(corrections, c, <<>>)
    /\ original_buffer' = Upd(original_buffer, FrameOf(c), <<>>)
    /\ corrected_buffer' = Upd(corrected_buffer, FrameOf(c), <<>>)
    /\ original_word_index' = Upd(original_word_index, c, 0)
    /\ corrected_word_index' = Upd(corrected_word_index, c, 0)
    /\ pos' = Upd(pos, c, 0)
    /\ pc' = Upd(pc, c, "scan")
    /\ UNCHANGED <<original_text, corrected_text, context_words, result>>
    /\ UNCHANGED <<rcVars, imgVars, piVars, svcVars>>

\* the item the for loop looks at next
HasItem(c) == pc[c] = "scan" /\ pos[c] < Len(diff[c])

Item(c) == diff[c][pos[c] + 1]

\* code == '?': continue
SkipMarker(c) ==
    /\ HasItem(c)
    /\ Item(c).code = "?"
    /\ pos' = Upd(pos, c, pos[c] + 1)
    /\ UNCHANGED <<original_text, corrected_text, context_words, pc, original_words,
                   corrected_words, diff, original_buffer, corrected_buffer,
                   original_word_index, corrected_word_index, corrections, result,
                   differ_calls>>
    /\ UNCHANGED <<rcVars, imgVars, piVars, svcVars>>

\* variant of code == '-': the word is buffered, the cursor stays
ScanDeleteWithoutStep(c) ==
    /\ HasItem(c)
    /\ Item(c).code = "-"
    /\ original_buffer' = Upd(original_buffer, FrameOf(c),
                              Append(original_buffer[FrameOf(c)], Item(c).token))
    /\ pos' = Upd(pos, c, pos[c] + 1)
    /\ UNCHANGED <<original_text, corrected_text, context_words, pc, original_words,
                   corrected_words, diff, corrected_buffer, original_word_index,
                   corrected_word_index, corrections, result, differ_calls>>
    /\ UNCHANGED <<rcVars, imgVars, piVars, svcVars>>

\* code == '-'
ScanDelete(c) ==
    /\ HasItem(c)
    /\ Item(c).code = "-"
    /\ original_buffer' = Upd(original_buffer, FrameOf(c),
                              Append(original_buffer[FrameOf(c)], Item(c).token))
    /\ original_word_index' = Upd(original_word_index, c, original_word_index[c] + 1)
    /\ pos' = Upd(pos, c, pos[c] + 1)
    /\ UNCHANGED <<original_text, corrected_text, context_words, pc, original_words,
                   corrected_words, diff, corrected_buffer, corrected_word_index,
                   corrections, result, differ_calls>>
    /\ UNCHANGED <<rcVars, imgVars, piVars, svcVars>>

\* code == '+'
ScanInsert(c) ==
    /\ HasItem(c)
    /\ Item(c).code = "+"
    /\ corrected_buffer' = Upd(corrected_buffer, FrameOf(c),
                               Append(corrected_buffer[FrameOf(c)], Item(c).token))
    /\ corrected_word_index' = Upd(corrected_word_index, c, corrected_word_index[c] + 1)
    /\ pos' = Upd(pos, c, pos[c] + 1)
    /\ UNCHANGED <<original_text, corrected_text, context_words, pc, original_words,
                   corrected_words, diff, original_buffer, original_word_index,
                   corrections, result, differ_calls>>
    /\ UNCHANGED <<rcVars, imgVars, piVars, svcVars>>

\* the corrections list after draining the buffers of invocation c
Drained(c) ==
    Drain(original_buffer[FrameOf(c)], corrected_buffer[FrameOf(c)],
          original_word_index[c], corrected_word_index[c],
          original_words[c], corrected_words[c], context_words[c], corrections[c])

\* code == ' ': drain the buffered run, step both cursors, reset the buffers
ScanMatch(c) ==
    /\ HasItem(c)
    /\ Item(c).code = " "
    /\ corrections' = Upd(corrections, c, Drained(c))
    /\ original_word_index' = Upd(original_word_index, c, original_word_index[c] + 1)
    /\ corrected_word_index' = Upd(corrected_word_index, c, corrected_word_index[c] + 1)
    /\ original_buffer' = Upd(original_buffer, FrameOf(c), <<>>)
    /\ corrected_buffer' = Upd(corrected_buffer, FrameOf(c), <<>>)
    /\ pos' = Upd(pos, c, pos[c] + 1)
    /\ UNCHANGED <<original_text, corrected_text, context_words, pc, original_words,
                   corrected_words, diff, result, differ_calls>>
    /\ UNCHANGED <<rcVars, imgVars, piVars, svcVars>>

\* after the loop: drain what is still buffered
DrainRemaining(c) ==
    /\ pc[c] = "scan"
    /\ pos[c] = Len(diff[c])
    /\ corrections' = Upd(corrections, c, Drained(c))
    /\ original_buffer' = Upd(original_buffer, FrameOf(c), <<>>)
    /\ corrected_buffer' = Upd(corrected_buffer, FrameOf(c), <<>>)
    /\ pc' = Upd(pc, c, "filter")
    /\ UNCHANGED <<original_text, corrected_text, context_words, original_words,
                   corrected_words, diff, pos, original_word_index,
                   corrected_word_index, result, differ_calls>>
    /\ UNCHANGED <<rcVars, imgVars, piVars, svcVars>>

\* the final filter and the return
ReturnCleaned(c) ==
    /\ pc[c] = "filter"
    /\ result' = Upd(result, c, FinalFilter(corrections[c]))
    /\ pc' = Upd(pc, c, "done")
    /\ UNCHANGED <<original_text, corrected_text, context_words, original_words,
                   corrected_words, diff, pos, original_buffer, corrected_buffer,
                   original_word_index, corrected_word_index, corrections,
                   differ_calls>>
    /\ UNCHANGED <<rcVars, imgVars, piVars, svcVars>>

Next ==
    \/ \E c \in Calls : FastPath(c)
    \/ \E c \in Calls : Align(c)
    \/ \E c \in Calls : SkipMarker(c)
    \/ \E c \in Calls : ScanDelete(c)
    \/ \E c \in Calls : ScanInsert(c)
    \/ \E c \in Calls : ScanMatch(c)
    \/ \E c \in Calls : DrainRemaining(c)
    \/ \E c \in Calls : ReturnCleaned(c)

\* one invocation, over all inputs within the bounds
Spec == Init /\ [][Next]_vars

\* several invocations interleaved step by step
SpecPar == InitPar /\ [][Next]_vars

\* one invocation called with a negative context_words
SpecNegative == InitNegative /\ [][Next]_vars

\* ------------------------------------------------------------------------
\* reconstruct_with_highlighting(original_content, 'html', ..., corrections)
\* ------------------------------------------------------------------------
\* The tree is the list of its nodes in document order; every node has an
\* identity, the identity of its parent element (0: the document itself)
\* and, for a text node (NavigableString), its characters.
TagNode(id, name, parent) ==
    [id |-> id, kind |-> "tag", name |-> name, parent |-> parent, text |-> <<>>]

TextNode(id, parent, text) ==
    [id |-> id, kind |-> "text", name |-> "", parent |-> parent, text |-> text]

\* position in the tree of the node with the given identity
IndexOf(tree, id) == CHOOSE i \in 1..Len(tree) : tree[i].id = id

\* every text node is taken to hang directly under the document
ParentNameOfDocument(tree, node) == "[document]"

\* text_node.parent.name; the document itself is named '[document]'
ParentName(tree, node) ==
    IF node.parent = 0 THEN "[document]" ELSE tree[IndexOf(tree, node.parent)].name

\* soup.find_all(string=True)
FindAllStrings(tree) ==
    LET isText(n) == n.kind = "text"
        ts == SelectSeq(tree, isText)
    IN [i \in 1..Len(ts) |-> ts[i].id]

\* {corr_dict['original_word'].lower() for corr_dict in corrections
\*  if corr_dict['original_word'] != corr_dict['corrected_word']}
OriginalCorrectedWordsSet(corrs) ==
    {Lower(corrs[i].original_word) :
        i \in {j \in 1..Len(corrs) : corrs[j].original_word # corrs[j].corrected_word}}

\* variant: the marker is put around the lowercased word
UnderlinedLowered(item) == <<"<", "u", ">">> \o Lower(item) \o <<"<", "/", "u", ">">>

\* f'<u>{item}</u>'
Underlined(item) == <<"<", "u", ">">> \o item \o <<"<", "/", "u", ">">>

\* new_content: every word token whose lowercase form is in the set is
\* wrapped, separators and other words are kept
NewContent(tokens, set) ==
    [i \in 1..Len(tokens) |->
        IF IsWordToken(tokens[i]) /\ Lower(tokens[i]) \in set
        THEN Underlined(tokens[i]) ELSE tokens[i]]

\* the node is rebuilt whatever its words are
ModifiedAlways(tokens, set) == TRUE

\* modified: some word token was wrapped
Modified(tokens, set) ==
    \E i \in 1..Len(tokens) : IsWordToken(tokens[i]) /\ Lower(tokens[i]) \in set

\* "".join(new_content)
RECURSIVE Concat(_)
Concat(parts) == IF parts = <<>> THEN <<>> ELSE Head(parts) \o Concat(Tail(parts))

\* the documents <p>t1</p><name>t2</name> and <p>t1<name>t2</name></p>
Document(name, nested, t1, t2) ==
    <<TagNode(1, "p", 0), TextNode(2, 1, t1),
      TagNode(3, name, IF nested THEN 1 ELSE 0), TextNode(4, 3, t2)>>

TextThisAreWrong ==
    <<"T", "h", "i", "s", " ", "a", "r", "e", " ", "w", "r", "o", "n", "g", ".">>

TextAreTwice == <<"A", "R", "E", " ", "a", "r", "e">>

TextBlank == <<" ", "\n">>

TextCareFare == <<"c", "a", "r", "e", " ", "f", "a", "r", "e">>

\* the text of "a &lt;![x are": an unfinished marked section, then the word
TextMarked == <<"a", " ", "<", "!", "[", "x", " ", "a", "r", "e">>

TextPool == {TextThisAreWrong, TextAreTwice, TextBlank, TextCareFare, TextMarked}

Documents ==
    {Document(name, nested, t1, t2) :
        name \in {"div", "script", "style"}, nested \in BOOLEAN,
        t1 \in TextPool, t2 \in TextPool}

WordAre == <<"a", "r", "e">>

WordIs == <<"i", "s">>

WordWrong == <<"w", "r", "o", "n", "g">>

WordRight == <<"r", "i", "g", "h", "t">>

CorrectionLists ==
    {<<>>,
     <<Correction(WordAre, WordIs, <<>>, <<>>)>>,
     <<Correction(<<"A", "r", "e">>, WordIs, <<>>, <<>>),
       Correction(WordWrong, WordRight, <<>>, <<>>)>>,
     <<Correction(WordAre, WordAre, <<>>, <<>>)>>}

\* the call has been entered with a parsed document and a corrections list
InitTree ==
    /\ InitCalls({}, Inputs)
    /\ rc_pc = "called"
    /\ variant \in {"processor", "googlecolab"}
    /\ html_input \in Documents
    /\ soup = html_input
    /\ rc_corrections \in CorrectionLists
    /\ text_nodes = <<>>
    /\ node_i = 0
    /\ words_set = {}
    /\ next_id = 5
    /\ rc_result = "none"
    /\ ImgIdle
    /\ PiIdle
    /\ SvcIdle

\* variant of the branch without corrections: nothing is returned
ReturnNoneWithoutCorrections ==
    /\ rc_pc = "called"
    /\ rc_corrections = <<>>
    /\ rc_result' = "None"
    /\ rc_pc' = "done"
    /\ UNCHANGED <<variant, html_input, rc_corrections, soup, text_nodes, node_i,
                   words_set, next_id>>
    /\ UNCHANGED <<icVars, imgVars, piVars, svcVars>>

\* if not corrections and input_type == 'html': return original_content
ReturnOriginalContent ==
    /\ rc_pc = "called"
    /\ rc_corrections = <<>>
    /\ rc_result' = "soup"
    /\ rc_pc' = "done"
    /\ UNCHANGED <<variant, html_input, rc_corrections, soup, text_nodes, node_i,
                   words_set, next_id>>
    /\ UNCHANGED <<icVars, imgVars, piVars, svcVars>>

\* text_nodes = soup.find_all(string=True) and the set of corrected words
CollectTextNodes ==
    /\ rc_pc = "called"
    /\ rc_corrections # <<>>
    /\ text_nodes' = FindAllStrings(soup)
    /\ words_set' = OriginalCorrectedWordsSet(rc_corrections)
    /\ node_i' = 0
    /\ rc_pc' = "loop"
    /\ UNCHANGED <<variant, html_input, rc_corrections, soup, next_id, rc_result>>
    /\ UNCHANGED <<icVars, imgVars, piVars, svcVars>>

HasTextNode == rc_pc = "loop" /\ node_i < Len(text_nodes)

\* the text node the for loop looks at next
TextNodeAt == soup[IndexOf(soup, text_nodes[node_i + 1])]

\* re.findall(r'(\b\w+\b|\W+)', str(text_node))
TokensAndSeparators == FindAllTokens(TextNodeAt.text)

\* parent.name in ['script', 'style']: continue
SkipScriptOrStyle ==
    /\ HasTextNode
    /\ ParentName(soup, TextNodeAt) \in {"script", "style"}
    /\ node_i' = node_i + 1
    /\ UNCHANGED <<rc_pc, variant, html_input, rc_corrections, soup, text_nodes,
                   words_set, next_id, rc_result>>
    /\ UNCHANGED <<icVars, imgVars, piVars, svcVars>>

\* no word of the node is in the set: the node is left as it is
LeaveNode ==
    /\ HasTextNode
    /\ ParentName(soup, TextNodeAt) \notin {"script", "style"}
    /\ ~Modified(TokensAndSeparators, words_set)
    /\ node_i' = node_i + 1
    /\ UNCHANGED <<rc_pc, variant, html_input, rc_corrections, soup, text_nodes,
                   words_set, next_id, rc_result>>
    /\ UNCHANGED <<icVars, imgVars, piVars, svcVars>>

\* modified_node_text = "".join(new_content)
ModifiedNodeText == Concat(NewContent(TokensAndSeparators, words_set))

\* node.replace_with(new_nodes): the new nodes take the node's place
ReplaceWith(tree, id, new_nodes) ==
    SubSeq(tree, 1, IndexOf(tree, id) - 1) \o new_nodes
        \o SubSeq(tree, IndexOf(tree, id) + 1, Len(tree))

\* app/processor.py: text_node.replace_with(NavigableString(modified_node_text)),
\* a new text node, holding the rebuilt characters, takes the place of the
\* old one
ReplaceNode ==
    /\ variant = "processor"
    /\ HasTextNode
    /\ ParentName(soup, TextNodeAt) \notin {"script", "style"}
    /\ Modified(TokensAndSeparators, words_set)
    /\ soup' = ReplaceWith(soup, TextNodeAt.id,
                           <<TextNode(next_id, TextNodeAt.parent, ModifiedNodeText)>>)
    /\ next_id' = next_id + 1
    /\ node_i' = node_i + 1
    /\ UNCHANGED <<rc_pc, variant, html_input, rc_corrections, text_nodes, words_set,
                   rc_result>>
    /\ UNCHANGED <<icVars, imgVars, piVars, svcVars>>

\* the first position at or after i where the markup begins in the text, or
\* one past the end of the text
RECURSIVE FindMarkup(_, _, _)
FindMarkup(text, markup, i) ==
    IF i > Len(text) THEN Len(text) + 1
    ELSE IF Slice(text, i - 1, i - 1 + Len(markup)) = markup THEN i
    ELSE FindMarkup(text, markup, i + 1)

OpenU == <<"<", "u", ">">>

CloseU == <<"<", "/", "u", ">">>

\* BeautifulSoup(text, 'html.parser') on a text whose only markup is <u> and
\* </u>: the children of the parsed document from position i on, a text
\* node for each run of characters outside the markers and an element u
\* with one text node for each marked run
RECURSIVE ParseFrom(_, _, _, _)
ParseFrom(text, i, id, parent) ==
    IF i > Len(text) THEN <<>>
    ELSE IF FindMarkup(text, OpenU, i) = i
    THEN LET close == FindMarkup(text, CloseU, i + Len(OpenU))
             inner == Slice(text, i + Len(OpenU) - 1, close - 1)
         IN IF inner = <<>>
            THEN <<TagNode(id, "u", parent)>>
                     \o ParseFrom(text, close + Len(CloseU), id + 1, parent)
            ELSE <<TagNode(id, "u", parent), TextNode(id + 1, id, inner)>>
                     \o ParseFrom(text, close + Len(CloseU), id + 2, parent)
    ELSE LET open == FindMarkup(text, OpenU, i)
         IN <<TextNode(id, parent, Slice(text, i - 1, open - 1))>>
                \o ParseFrom(text, open, id + 1, parent)

MarkedOpen == <<"<", "!", "[">>

\* the status keywords of a marked section that html.parser knows
StatusKeywords ==
    {<<"t", "e", "m", "p">>,
     <<"c", "d", "a", "t", "a">>,
     <<"i", "g", "n", "o", "r", "e">>,
     <<"i", "n", "c", "l", "u", "d", "e">>,
     <<"r", "c", "d", "a", "t", "a">>,
     <<"i", "f">>,
     <<"e", "l", "s", "e">>,
     <<"e", "n", "d", "i", "f">>}

\* html.parser gives up (AssertionError, which bs4 turns into
\* ParserRejectedMarkup) on the first marked section "<![" of the text when
\* no name follows it, or a name that is no status keyword and is not the
\* end of the text; the name is taken to be a run of word characters, and
\* the markup before the marked section to be <u> elements only
RejectedByParser(text) ==
    LET i == FindMarkup(text, MarkedOpen, 1)
        rest == Slice(text, i + 2, Len(text))
        n == RunOf(rest, TRUE)
        after == Slice(rest, n, Len(rest))
    IN /\ i <= Len(text)
       /\ rest # <<>>
       /\ \/ Head(rest) \notin (Range(UpperChars) \cup Range(LowerChars))
          \/ /\ LStrip(after) # <<>>
             /\ Lower(SubSeq(rest, 1, n)) \notin StatusKeywords

\* the parsed document object and its children
ParsedContent(text, id, parent) ==
    <<TagNode(id, "[document]", parent)>> \o ParseFrom(text, 1, id + 1, id)

\* googlecolab.py: text_node.replace_with(BeautifulSoup(modified_node_text,
\* 'html.parser')), the parsed rebuilt text takes the place of the old node
ReplaceNodeParsed ==
    /\ variant = "googlecolab"
    /\ HasTextNode
    /\ ParentName(soup, TextNodeAt) \notin {"script", "style"}
    /\ Modified(TokensAndSeparators, words_set)
    /\ ~RejectedByParser(ModifiedNodeText)
    /\ LET new_soup_content == ParsedContent(ModifiedNodeText, next_id, TextNodeAt.parent)
       IN /\ soup' = ReplaceWith(soup, TextNodeAt.id, new_soup_content)
          /\ next_id' = next_id + Len(new_soup_content)
    /\ node_i' = node_i + 1
    /\ UNCHANGED <<rc_pc, variant, html_input, rc_corrections, text_nodes, words_set,
                   rc_result>>
    /\ UNCHANGED <<icVars, imgVars, piVars, svcVars>>

\* googlecolab.py: BeautifulSoup(modified_node_text, 'html.parser') raises,
\* the except clause around the whole loop prints the error and returns
\* None; the tree keeps the replacements made so far
ReturnNoneForRejectedMarkup ==
    /\ variant = "googlecolab"
    /\ HasTextNode
    /\ ParentName(soup, TextNodeAt) \notin {"script", "style"}
    /\ Modified(TokensAndSeparators, words_set)
    /\ RejectedByParser(ModifiedNodeText)
    /\ rc_result' = "None"
    /\ rc_pc' = "done"
    /\ UNCHANGED <<variant, html_input, rc_corrections, soup, text_nodes, node_i,
                   words_set, next_id>>
    /\ UNCHANGED <<icVars, imgVars, piVars, svcVars>>

\* return soup
ReturnSoup ==
    /\ rc_pc = "loop"
    /\ node_i = Len(text_nodes)
    /\ rc_result' = "soup"
    /\ rc_pc' = "done"
    /\ UNCHANGED <<variant, html_input, rc_corrections, soup, text_nodes, node_i,
                   words_set, next_id>>
    /\ UNCHANGED <<icVars, imgVars, piVars, svcVars>>

NextTree ==
    \/ ReturnOriginalContent
    \/ CollectTextNodes
    \/ SkipScriptOrStyle
    \/ LeaveNode
    \/ ReplaceNode
    \/ ReplaceNodeParsed
    \/ ReturnNoneForRejectedMarkup
    \/ ReturnSoup

\* one call of the tree projector, over the documents and corrections lists
SpecTree == InitTree /\ [][NextTree]_vars

\* ------------------------------------------------------------------------
\* reconstruct_with_highlighting(original_content, 'image', ..., corrections,
\* original_ocr_results)
\* ------------------------------------------------------------------------
\* confidence_threshold = 0.5; confidences are counted in hundredths
confidence_threshold == 50

\* polygon coordinates are numbers with a fractional part; they are given
\* in CoordUnit-ths of a pixel
CoordUnit == 2

\* int(p[0]): the integer part of a (non-negative) coordinate
IntOf(v) == v \div CoordUnit

\* one OCR result (bbox, text, confidence)
Detection(bbox, text, confidence) ==
    [bbox |-> bbox, text |-> text, confidence |-> confidence]

\* x_coords = [int(p[0]) for p in bbox]
XCoords(bbox) == [i \in 1..Len(bbox) |-> IntOf(bbox[i][1])]

\* y_coords = [int(p[1]) for p in bbox]
YCoords(bbox) == [i \in 1..Len(bbox) |-> IntOf(bbox[i][2])]

\* every detection is highlighted whatever its confidence
IsConfidentAlways(confidence) == TRUE

\* confidence >= confidence_threshold
IsConfident(confidence) == confidence >= confidence_threshold

\* \b at 0-based position i of the text: exactly one of the characters
\* before and after the position is a word character
WordBoundary(text, i) ==
    (i > 0 /\ IsWordChar(text[i])) # (i < Len(text) /\ IsWordChar(text[i + 1]))

\* r'\b' + re.escape(original_word_lower) + r'\b' matches at position i
MatchesAt(text, w, i) ==
    /\ Slice(text, i, i + Len(w)) = w
    /\ WordBoundary(text, i)
    /\ WordBoundary(text, i + Len(w))

\* re.finditer: the start positions of the matches, left to right, without
\* overlap (for a word of at least one character)
RECURSIVE FindIter(_, _, _)
FindIter(text, w, i) ==
    IF i + Len(w) > Len(text) THEN <<>>
    ELSE IF MatchesAt(text, w, i) THEN <<i>> \o FindIter(text, w, i + Len(w))
    ELSE FindIter(text, w, i + 1)

\* the rectangle is drawn at the left edge of the block, wherever the match is
WordRectangleAtBlockStart(det, x1, y1, x2, y2, start_index, word_length, text_length) ==
    [det |-> det,
     x1_num |-> x1 * text_length,
     x2_num |-> x1 * text_length + word_length * (x2 - x1),
     den |-> text_length,
     y1 |-> y1,
     y2 |-> y2]

\* the rectangle drawn for the match at start_index: with
\* char_width_approx = block_width / len(block_text) the horizontal bounds
\* are fractions of denominator len(block_text), kept as numerators
WordRectangle(det, x1, y1, x2, y2, start_index, word_length, text_length) ==
    [det |-> det,
     x1_num |-> x1 * text_length + start_index * (x2 - x1),
     x2_num |-> x1 * text_length + start_index * (x2 - x1) + word_length * (x2 - x1),
     den |-> text_length,
     y1 |-> y1,
     y2 |-> y2]

\* the rectangles drawn for one word of the set in one detection (the
\* body of the loop over the set)
RectanglesFor(det, detection, original_word_lower) ==
    LET x_coords == XCoords(detection.bbox)
        y_coords == YCoords(detection.bbox)
        x1 == SetMin(Range(x_coords))
        y1 == SetMin(Range(y_coords))
        x2 == SetMax(Range(x_coords))
        y2 == SetMax(Range(y_coords))
        block_text_lower == Lower(detection.text)
        starts == FindIter(block_text_lower, original_word_lower, 0)
    IN [m \in 1..Len(starts) |->
           WordRectangle(det, x1, y1, x2, y2, starts[m], Len(original_word_lower),
                         Len(detection.text))]

\* an axis-aligned polygon, corners in CoordUnit-ths of a pixel
Box(x1, y1, x2, y2) == <<<<x1, y1>>, <<x2, y1>>, <<x2, y2>>, <<x1, y2>>>>

TextThisAreWrongPlain == SubSeq(TextThisAreWrong, 1, 14)

\* scenario 5: 100 x 20 at (0, 0), "This are wrong", confidence 0.9
ScenarioDetection == Detection(Box(0, 0, 200, 40), TextThisAreWrongPlain, 90)

\* a detection below the threshold whose text is a corrected word
FaintDetection == Detection(Box(20, 20, 80, 60), WordAre, 30)

\* a detection at the threshold, corners between two pixels, the word twice
TiltedDetection ==
    Detection(<<<<21, 11>>, <<161, 13>>, <<163, 53>>, <<23, 51>>>>, TextAreTwice, 50)

\* a confident detection where the word only occurs inside longer words
InsideDetection == Detection(Box(0, 100, 180, 140), TextCareFare, 80)

DetectionPool == {ScenarioDetection, FaintDetection, TiltedDetection, InsideDetection}

\* the lists of at most MaxDetections detections, and None
MaxDetections == 2

DetectionLists ==
    {NoDetections}
        \cup {[supplied |-> TRUE, items |-> ds] :
                ds \in UNION {[1..n -> DetectionPool] : n \in 0..MaxDetections}}

InitImage ==
    /\ InitCalls({}, Inputs)
    /\ RcIdle
    /\ img_pc = "called"
    /\ image_loads \in BOOLEAN
    /\ img_corrections \in CorrectionLists
    /\ original_ocr_results \in DetectionLists
    /\ img_words_set = {}
    /\ det_i = 0
    /\ words_left = {}
    /\ rectangles = <<>>
    /\ img_result = "none"
    /\ PiIdle
    /\ SvcIdle

\* if not corrections and input_type == 'image': the original image is
\* opened and returned, None when it cannot be opened
ReturnOriginalImage ==
    /\ img_pc = "called"
    /\ img_corrections = <<>>
    /\ img_result' = IF image_loads THEN "image" ELSE "None"
    /\ img_pc' = "done"
    /\ UNCHANGED <<image_loads, img_corrections, original_ocr_results, img_words_set,
                   det_i, words_left, rectangles>>
    /\ UNCHANGED <<icVars, rcVars, piVars, svcVars>>

\* if original_ocr_results is None: return None
ReturnNoneForMissingResults ==
    /\ img_pc = "called"
    /\ img_corrections # <<>>
    /\ ~original_ocr_results.supplied
    /\ img_result' = "None"
    /\ img_pc' = "done"
    /\ UNCHANGED <<image_loads, img_corrections, original_ocr_results, img_words_set,
                   det_i, words_left, rectangles>>
    /\ UNCHANGED <<icVars, rcVars, piVars, svcVars>>

\* Image.open raises OSError: the except clause returns None
ReturnNoneForImageError ==
    /\ img_pc = "called"
    /\ img_corrections # <<>>
    /\ original_ocr_results.supplied
    /\ ~image_loads
    /\ img_result' = "None"
    /\ img_pc' = "done"
    /\ UNCHANGED <<image_loads, img_corrections, original_ocr_results, img_words_set,
                   det_i, words_left, rectangles>>
    /\ UNCHANGED <<icVars, rcVars, piVars, svcVars>>

\* the image is opened and the set of corrected words is built
OpenImage ==
    /\ img_pc = "called"
    /\ img_corrections # <<>>
    /\ original_ocr_results.supplied
    /\ image_loads
    /\ img_words_set' = OriginalCorrectedWordsSet(img_corrections)
    /\ words_left' = OriginalCorrectedWordsSet(img_corrections)
    /\ det_i' = 0
    /\ img_pc' = "loop"
    /\ UNCHANGED <<image_loads, img_corrections, original_ocr_results, rectangles,
                   img_result>>
    /\ UNCHANGED <<icVars, rcVars, piVars, svcVars>>

HasDetection == img_pc = "loop" /\ det_i < Len(original_ocr_results.items)

\* the detection the for loop looks at next
DetectionAt == original_ocr_results.items[det_i + 1]

\* confidence below the threshold: nothing is done for the detection
SkipDetection ==
    /\ HasDetection
    /\ ~IsConfident(DetectionAt.confidence)
    /\ det_i' = det_i + 1
    /\ UNCHANGED <<img_pc, image_loads, img_corrections, original_ocr_results,
                   img_words_set, words_left, rectangles, img_result>>
    /\ UNCHANGED <<icVars, rcVars, piVars, svcVars>>

\* one round of the loop over the set (a set is visited in no particular
\* order): a rectangle is drawn for every match of the word
DrawWord ==
    /\ HasDetection
    /\ IsConfident(DetectionAt.confidence)
    /\ \E original_word_lower \in words_left :
          /\ rectangles' = rectangles
                 \o RectanglesFor(det_i + 1, DetectionAt, original_word_lower)
          /\ words_left' = words_left \ {original_word_lower}
    /\ UNCHANGED <<img_pc, image_loads, img_corrections, original_ocr_results,
                   img_words_set, det_i, img_result>>
    /\ UNCHANGED <<icVars, rcVars, piVars, svcVars>>

\* the loop over the set is over: on to the next detection
NextDetection ==
    /\ HasDetection
    /\ IsConfident(DetectionAt.confidence)
    /\ words_left = {}
    /\ det_i' = det_i + 1
    /\ words_left' = img_words_set
    /\ UNCHANGED <<img_pc, image_loads, img_corrections, original_ocr_results,
                   img_words_set, rectangles, img_result>>
    /\ UNCHANGED <<icVars, rcVars, piVars, svcVars>>

\* return img
ReturnImage ==
    /\ img_pc = "loop"
    /\ det_i = Len(original_ocr_results.items)
    /\ img_result' = "image"
    /\ img_pc' = "done"
    /\ UNCHANGED <<image_loads, img_corrections, original_ocr_results, img_words_set,
                   det_i, words_left, rectangles>>
    /\ UNCHANGED <<icVars, rcVars, piVars, svcVars>>

NextImage ==
    \/ ReturnOriginalImage
    \/ ReturnNoneForMissingResults
    \/ ReturnNoneForImageError
    \/ OpenImage
    \/ SkipDetection
    \/ DrawWord
    \/ NextDetection
    \/ ReturnImage

\* one call of the raster projector, over the detection lists and the
\* corrections lists
SpecImage == InitImage /\ [][NextImage]_vars

\* ------------------------------------------------------------------------
\* process_input(input_source_path) on an image file
\* ------------------------------------------------------------------------
\* the text with every word that is `from`, whatever its case, replaced
RewriteWord(text, from, to) ==
    LET toks == FindAllTokens(text)
    IN Concat([i \in 1..Len(toks) |-> IF Lower(toks[i]) = from THEN to ELSE toks[i]])

WordWrongly == <<"w", "r", "o", "n", "g", "l", "y">>

\* correct_grammar(text): what the correction model may answer, the text
\* itself or the text with one of its words rewritten
GrammarOutputs(text) ==
    {Strip(text), Strip(RewriteWord(text, WordAre, WordIs)),
     Strip(RewriteWord(text, WordWrong, WordWrongly))}

\* extracted_texts = [item[1] for item in results]
TextsOf(results) == [i \in 1..Len(results) |-> results[i].text]

\* settings.ALLOWED_IMAGE_EXTENSIONS
ALLOWED_IMAGE_EXTENSIONS == {<<".", "p", "n", "g">>, <<".", "j", "p", "g">>}

\* settings.ALLOWED_HTML_EXTENSIONS
ALLOWED_HTML_EXTENSIONS == {<<".", "h", "t", "m", "l">>, <<".", "h", "t", "m">>}

\* the argument of process_input: whether os.path.isfile holds of the path,
\* and os.path.splitext(path)[1]
Path(is_file, extension) == [is_file |-> is_file, extension |-> extension]

\* the paths of the runs: image files, files of another type, files without
\* extension, and paths of every extension where there is no file
Paths ==
    {Path(f, e) : f \in BOOLEAN,
                  e \in {<<".", "p", "n", "g">>, <<".", "P", "N", "G">>, <<".", "j", "p", "g">>,
                         <<".", "t", "x", "t">>, <<".", "p", "n">>, <<>>}}
        \cup {Path(FALSE, e) : e \in ALLOWED_HTML_EXTENSIONS}

\* the default of the parameter context_words of identify_corrections
DefaultContextWords == 3

\* variant of handle_input: the extension is looked at before the file
handle_input_extension_first(path) ==
    IF Lower(path.extension) \in ALLOWED_IMAGE_EXTENSIONS
    THEN [content |-> "path", input_type |-> "image"]
    ELSE IF Lower(path.extension) \in ALLOWED_HTML_EXTENSIONS
         THEN [content |-> "text", input_type |-> "html"]
         ELSE IF ~path.is_file
              THEN [content |-> "None", input_type |-> "file_not_found"]
              ELSE [content |-> "None", input_type |-> "unknown_file_type"]

\* handle_input: (content, input_type), or (None, error_type)
handle_input(path) ==
    IF ~path.is_file
    THEN [content |-> "None", input_type |-> "file_not_found"]
    ELSE IF Lower(path.extension) \in ALLOWED_IMAGE_EXTENSIONS
         THEN [content |-> "path", input_type |-> "image"]
         ELSE IF Lower(path.extension) \in ALLOWED_HTML_EXTENSIONS
              THEN [content |-> "text", input_type |-> "html"]
              ELSE [content |-> "None", input_type |-> "unknown_file_type"]

\* a run of process_input has been entered: the path holds an image or is
\* rejected by handle_input, the engine is ready, missing or broken, and
\* the image holds some detections
InitProcess ==
    /\ InitCalls({}, Inputs)
    /\ RcIdle
    /\ img_pc = "idle"
    /\ image_loads \in BOOLEAN
    /\ img_corrections = <<>>
    /\ original_ocr_results = NoDetections
    /\ img_words_set = {}
    /\ det_i = 0
    /\ words_left = {}
    /\ rectangles = <<>>
    /\ img_result = "none"
    /\ pi_pc = "called"
    /\ input_source_path \in Paths
    /\ file_kind = handle_input(input_source_path).input_type
    /\ ocr_reader \in {"ready", "unavailable", "failing", "crashing"}
    /\ \E ds \in DetectionLists : ds.supplied /\ engine_output = ds.items
    /\ readtext_calls = 0
    /\ events = <<>>
    /\ extracted_texts = <<>>
    /\ pi_ocr_results = NoResults
    /\ text_to_correct = <<>>
    /\ pi_corrected_text = <<>>
    /\ highlight_list = 0
    /\ response = NoResponse
    /\ SvcIdle

\* what a step of process_input leaves alone besides its own locals
PiFrame ==
    UNCHANGED <<icVars, rcVars, imgVars, input_source_path, file_kind, ocr_reader,
                engine_output, svcVars>>

\* handle_input returns (None, error_type): the run is answered as failed
RejectInput ==
    /\ pi_pc = "called"
    /\ handle_input(input_source_path).content = "None"
    /\ response' = [success |-> FALSE, kind |-> "input_error", corrections_count |-> 0,
                    input_type |-> handle_input(input_source_path).input_type,
                    error |-> "Failed to handle input"]
    /\ pi_pc' = "done"
    /\ UNCHANGED <<readtext_calls, events, extracted_texts, pi_ocr_results,
                   text_to_correct, pi_corrected_text, highlight_list>>
    /\ PiFrame

\* extract_text without a reader: ([], []) and the engine is not invoked
ExtractWithoutReader ==
    /\ pi_pc = "called"
    /\ file_kind = "image"
    /\ ocr_reader = "unavailable"
    /\ extracted_texts' = <<>>
    /\ pi_ocr_results' = NoResults
    /\ text_to_correct' = <<>>
    /\ pi_pc' = "extracted"
    /\ UNCHANGED <<readtext_calls, events, pi_corrected_text, highlight_list, response>>
    /\ PiFrame

\* extract_text: results = self.ocr_reader.readtext(content), the texts
\* are joined with spaces
ExtractText ==
    /\ pi_pc = "called"
    /\ file_kind = "image"
    /\ ocr_reader = "ready"
    /\ readtext_calls' = readtext_calls + 1
    /\ events' = Append(events, "readtext")
    /\ extracted_texts' = TextsOf(engine_output)
    /\ pi_ocr_results' = [call |-> readtext_calls + 1, items |-> engine_output]
    /\ text_to_correct' = Join(TextsOf(engine_output))
    /\ pi_pc' = "extracted"
    /\ UNCHANGED <<pi_corrected_text, highlight_list, response>>
    /\ PiFrame

\* readtext raises OSError, ValueError or AttributeError: ([], [])
ExtractFails ==
    /\ pi_pc = "called"
    /\ file_kind = "image"
    /\ ocr_reader = "failing"
    /\ readtext_calls' = readtext_calls + 1
    /\ events' = Append(events, "readtext")
    /\ extracted_texts' = <<>>
    /\ pi_ocr_results' = NoResults
    /\ text_to_correct' = <<>>
    /\ pi_pc' = "extracted"
    /\ UNCHANGED <<pi_corrected_text, highlight_list, response>>
    /\ PiFrame

\* readtext raises RuntimeError: extract_text lets it through and the
\* except clause of process_input answers the run as failed
ExtractCrashes ==
    /\ pi_pc = "called"
    /\ file_kind = "image"
    /\ ocr_reader = "crashing"
    /\ readtext_calls' = readtext_calls + 1
    /\ events' = Append(events, "readtext")
    /\ response' = [success |-> FALSE, kind |-> "exception", corrections_count |-> 0,
                    input_type |-> "unknown", error |-> "exception"]
    /\ pi_pc' = "done"
    /\ UNCHANGED <<extracted_texts, pi_ocr_results, text_to_correct, pi_corrected_text,
                   highlight_list>>
    /\ PiFrame

\* if not text_to_correct: the run is answered with empty texts
ReturnEmpty ==
    /\ pi_pc = "extracted"
    /\ text_to_correct = <<>>
    /\ response' = [success |-> TRUE, kind |-> "empty", corrections_count |-> 0,
                    input_type |-> file_kind, error |-> ""]
    /\ pi_pc' = "done"
    /\ UNCHANGED <<readtext_calls, events, extracted_texts, pi_ocr_results,
                   text_to_correct, pi_corrected_text, highlight_list>>
    /\ PiFrame

\* corrected_text = self.correct_grammar(text_to_correct)
CorrectGrammar ==
    /\ pi_pc = "extracted"
    /\ text_to_correct # <<>>
    /\ pi_corrected_text' \in GrammarOutputs(text_to_correct)
    /\ events' = Append(events, "correct_grammar")
    /\ pi_pc' = "corrected"
    /\ UNCHANGED <<readtext_calls, extracted_texts, pi_ocr_results, text_to_correct,
                   highlight_list, response>>
    /\ PiFrame

\* corrections = self.identify_corrections(" ".join(extracted_texts),
\* corrected_text): the invocation is entered
CallIdentifyCorrections ==
    /\ pi_pc = "corrected"
    /\ original_text' = [c \in {1} |-> Join(extracted_texts)]
    /\ corrected_text' = [c \in {1} |-> pi_corrected_text]
    /\ context_words' = [c \in {1} |-> DefaultContextWords]
    /\ pc' = [c \in {1} |-> "called"]
    /\ original_words' = [c \in {1} |-> <<>>]
    /\ corrected_words' = [c \in {1} |-> <<>>]
    /\ diff' = [c \in {1} |-> <<>>]
    /\ pos' = [c \in {1} |-> 0]
    /\ original_buffer' = [c \in {1} |-> <<>>]
    /\ corrected_buffer' = [c \in {1} |-> <<>>]
    /\ original_word_index' = [c \in {1} |-> 0]
    /\ corrected_word_index' = [c \in {1} |-> 0]
    /\ corrections' = [c \in {1} |-> <<>>]
    /\ result' = [c \in {1} |-> <<>>]
    /\ differ_calls' = [c \in {1} |-> 0]
    /\ events' = Append(events, "identify_corrections")
    /\ pi_pc' = "identifying"
    /\ UNCHANGED <<readtext_calls, extracted_texts, pi_ocr_results, text_to_correct,
                   pi_corrected_text, highlight_list, response>>
    /\ UNCHANGED <<rcVars, imgVars, input_source_path, file_kind, ocr_reader, engine_output, svcVars>>

\* the list of the extraction is recognised again for the highlighting
ResultsRecomputed == [call |-> readtext_calls + 1, items |-> engine_output]

\* original_ocr_results=original_ocr_results if input_type == 'image' else None
ResultsForHighlighting == pi_ocr_results

\* reconstruct_with_highlighting(original_content, 'image', corrected_text,
\* corrections, original_ocr_results=original_ocr_results) is entered when
\* identify_corrections has returned
CallReconstruct ==
    /\ pi_pc = "identifying"
    /\ pc[1] = "done"
    /\ img_pc' = "called"
    /\ img_corrections' = result[1]
    /\ original_ocr_results' = [supplied |-> TRUE, items |-> ResultsForHighlighting.items]
    /\ highlight_list' = ResultsForHighlighting.call
    /\ img_words_set' = {}
    /\ det_i' = 0
    /\ words_left' = {}
    /\ rectangles' = <<>>
    /\ img_result' = "none"
    /\ events' = Append(events, "reconstruct_with_highlighting")
    /\ pi_pc' = "highlighting"
    /\ UNCHANGED <<readtext_calls, extracted_texts, pi_ocr_results, text_to_correct,
                   pi_corrected_text, response>>
    /\ UNCHANGED <<icVars, rcVars, image_loads, input_source_path, file_kind, ocr_reader,
                   engine_output, svcVars>>

\* generate_output and the answer: success is True whatever
\* reconstruct_with_highlighting returned
Respond ==
    /\ pi_pc = "highlighting"
    /\ img_pc = "done"
    /\ response' = [success |-> TRUE,
                    kind |-> IF img_result = "image" THEN "image" ELSE "no_content",
                    corrections_count |-> Len(result[1]),
                    input_type |-> file_kind, error |-> ""]
    /\ pi_pc' = "done"
    /\ UNCHANGED <<readtext_calls, events, extracted_texts, pi_ocr_results,
                   text_to_correct, pi_corrected_text, highlight_list>>
    /\ PiFrame

\* the steps of process_input, of the identify_corrections invocation it
\* makes and of the highlighting call it makes (which always gets a list)
NextProcess ==
    \/ RejectInput
    \/ ExtractWithoutReader
    \/ ExtractText
    \/ ExtractFails
    \/ ExtractCrashes
    \/ ReturnEmpty
    \/ CorrectGrammar
    \/ CallIdentifyCorrections
    \/ \E c \in Calls : FastPath(c)
    \/ \E c \in Calls : Align(c)
    \/ \E c \in Calls : SkipMarker(c)
    \/ \E c \in Calls : ScanDelete(c)
    \/ \E c \in Calls : ScanInsert(c)
    \/ \E c \in Calls : ScanMatch(c)
    \/ \E c \in Calls : DrainRemaining(c)
    \/ \E c \in Calls : ReturnCleaned(c)
    \/ CallReconstruct
    \/ ReturnOriginalImage
    \/ ReturnNoneForImageError
    \/ OpenImage
    \/ SkipDetection
    \/ DrawWord
    \/ NextDetection
    \/ ReturnImage
    \/ Respond

\* one run of process_input
SpecProcess == InitProcess /\ [][NextProcess]_vars

\* ------------------------------------------------------------------------
\* reconstruct_with_highlighting: one call for either input type
\* ------------------------------------------------------------------------
\* input_type == 'html' or input_type == 'image'
InitReconstruct == InitTree \/ InitImage

NextReconstruct == NextTree \/ NextImage

SpecReconstruct == InitReconstruct /\ [][NextReconstruct]_vars

\* ------------------------------------------------------------------------
\* The task process_grammar_correction (app/tasks.py)
\* ------------------------------------------------------------------------
\* max_retries of the task decorator
max_retries == 3

\* the exceptions the except clause of the task body names
CaughtExceptions == {"OSError", "RuntimeError", "FileNotFoundError"}

\* celery's Task.retry(exc=exc) for a task sent to a worker: what the call
\* raises. Past max_retries it raises exc when one is given and
\* MaxRetriesExceededError only without one; otherwise it sends the task
\* again and raises Retry.
retry(retries, exc) ==
    IF retries + 1 > max_retries
    THEN IF exc # "None" THEN exc ELSE "MaxRetriesExceededError"
    ELSE "Retry"

\* a task has been sent and waits for a worker
InitTask ==
    /\ InitCalls({}, Inputs)
    /\ RcIdle
    /\ ImgIdle
    /\ PiIdle
    /\ task_pc = "queued"
    /\ request_retries = 0
    /\ task_attempts = <<>>
    /\ task_exc = "None"
    /\ task_outcome = "none"
    /\ ZipIdle
    /\ CacheIdle
    /\ CbIdle
    /\ RlIdle

\* what a step of the task leaves alone
TaskFrame ==
    UNCHANGED <<icVars, rcVars, imgVars, piVars, zipVars, cacheVars, cbVars, rlVars>>

\* a worker takes the task and enters the body: update_state(STARTED)
StartAttempt ==
    /\ task_pc = "queued"
    /\ task_pc' = "started"
    /\ UNCHANGED <<request_retries, task_attempts, task_exc, task_outcome>>
    /\ TaskFrame

\* if not os.path.exists(input_file_path): raise FileNotFoundError
FileMissing ==
    /\ task_pc = "started"
    /\ task_attempts' = Append(task_attempts, "file_missing")
    /\ task_exc' = "FileNotFoundError"
    /\ task_pc' = "raised"
    /\ UNCHANGED <<request_retries, task_outcome>>
    /\ TaskFrame

\* process_input returns success False: raise RuntimeError(error_msg)
ProcessReportsFailure ==
    /\ task_pc = "started"
    /\ task_attempts' = Append(task_attempts, "reports_failure")
    /\ task_exc' = "RuntimeError"
    /\ task_pc' = "raised"
    /\ UNCHANGED <<request_retries, task_outcome>>
    /\ TaskFrame

\* process_input raises an exception it does not catch itself (it catches
\* OSError, RuntimeError and ValueError), so one of another class
ProcessRaises ==
    /\ task_pc = "started"
    /\ task_attempts' = Append(task_attempts, "raises")
    /\ task_exc' = "Exception"
    /\ task_pc' = "raised"
    /\ UNCHANGED <<request_retries, task_outcome>>
    /\ TaskFrame

\* process_input returns success True: return result
ProcessSucceeds ==
    /\ task_pc = "started"
    /\ task_attempts' = Append(task_attempts, "succeeds")
    /\ task_outcome' = "result"
    /\ task_pc' = "ended"
    /\ UNCHANGED <<request_retries, task_exc>>
    /\ TaskFrame

\* the exception is of no class the except clause names: it leaves the body
FailUncaught ==
    /\ task_pc = "raised"
    /\ task_exc \notin CaughtExceptions
    /\ task_outcome' = "exception"
    /\ task_pc' = "ended"
    /\ UNCHANGED <<request_retries, task_attempts, task_exc>>
    /\ TaskFrame

\* except clause: raise self.retry(exc=e) sends the task again; the Retry
\* it raises is no MaxRetriesExceededError and leaves the body
RetryTask ==
    /\ task_pc = "raised"
    /\ task_exc \in CaughtExceptions
    /\ retry(request_retries, task_exc) = "Retry"
    /\ request_retries' = request_retries + 1
    /\ task_exc' = "None"
    /\ task_pc' = "queued"
    /\ UNCHANGED <<task_attempts, task_outcome>>
    /\ TaskFrame

\* except clause: self.retry(exc=e) raises past max_retries; the inner
\* handler returns the failure dictionary for a MaxRetriesExceededError
\* and lets every other exception leave the body
GiveUp ==
    /\ task_pc = "raised"
    /\ task_exc \in CaughtExceptions
    /\ retry(request_retries, task_exc) # "Retry"
    /\ task_outcome' = IF retry(request_retries, task_exc) = "MaxRetriesExceededError"
                       THEN "failure_result"
                       ELSE "exception"
    /\ task_pc' = "ended"
    /\ UNCHANGED <<request_retries, task_attempts, task_exc>>
    /\ TaskFrame

NextTask ==
    \/ StartAttempt
    \/ FileMissing
    \/ ProcessReportsFailure
    \/ ProcessRaises
    \/ ProcessSucceeds
    \/ FailUncaught
    \/ RetryTask
    \/ GiveUp

SpecTask == InitTask /\ [][NextTask]_vars

\* a worker is there for a queued task and a started body runs on
FairSpecTask == SpecTask /\ WF_vars(NextTask)

\* ------------------------------------------------------------------------
\* ZIP archives (app/zip_handler.py)
\* ------------------------------------------------------------------------
\* settings.MAX_FILES_IN_ZIP, scaled down
MAX_FILES_IN_ZIP == 2

\* settings.MAX_ZIP_EXTRACT_SIZE, scaled down, in units of file size
MAX_ZIP_EXTRACT_SIZE == 5

\* the most members an archive of the model has
MaxMembers == 3

\* a member of an archive: its name (characters, with '__MACOSX' as one
\* element), its uncompressed size, and whether zip_ref.extract succeeds
ZipInfo(filename, file_size, extracts) ==
    [filename |-> filename, file_size |-> file_size, extracts |-> extracts]

\* ZipInfo.is_dir(): the name ends with '/'
is_dir(info) ==
    Len(info.filename) > 0 /\ info.filename[Len(info.filename)] = "/"

\* the last position of ch in s, 0 when there is none
RFind(s, ch) == SetMax({0} \cup {i \in 1..Len(s) : s[i] = ch})

\* os.path.basename
basename(filename) == SubSeq(filename, RFind(filename, "/") + 1, Len(filename))

\* os.path.splitext(filename)[1]: from the last dot of the last component,
\* unless only dots come before it in that component
splitext_ext(filename) ==
    LET base == basename(filename)
        dot == RFind(base, ".")
    IN IF dot = 0 \/ \A i \in 1..dot : base[i] = "." THEN <<>>
       ELSE SubSeq(base, dot, Len(base))

\* self.allowed_extensions
allowed_extensions == ALLOWED_IMAGE_EXTENSIONS \cup ALLOWED_HTML_EXTENSIONS

\* is_valid_file
is_valid_file(filename) == Lower(splitext_ext(filename)) \in allowed_extensions

\* os.path.basename(filename).startswith('.') or '__MACOSX' in filename
is_hidden_or_system(filename) ==
    \/ (basename(filename) # <<>> /\ basename(filename)[1] = ".")
    \/ \E i \in 1..Len(filename) : filename[i] = "__MACOSX"

\* the members archives are made of: a folder, images in lower and upper
\* case, a page in a folder, a text file, hidden files at the top and in a
\* folder, a resource fork, a large page, an image that fails to extract
MemberPool ==
    {ZipInfo(<<"d", "/">>, 0, TRUE),
     ZipInfo(<<"a", ".", "p", "n", "g">>, 1, TRUE),
     ZipInfo(<<"b", ".", "P", "N", "G">>, 1, TRUE),
     ZipInfo(<<"d", "/", "p", ".", "h", "t", "m", "l">>, 1, TRUE),
     ZipInfo(<<"n", ".", "t", "x", "t">>, 1, TRUE),
     ZipInfo(<<".", "h", ".", "p", "n", "g">>, 1, TRUE),
     ZipInfo(<<"d", "/", ".", "x", ".", "p", "n", "g">>, 1, TRUE),
     ZipInfo(<<"__MACOSX", "/", "r", ".", "h", "t", "m", "l">>, 1, TRUE),
     ZipInfo(<<"l", ".", "h", "t", "m", "l">>, 4, TRUE),
     ZipInfo(<<"c", ".", "j", "p", "g">>, 1, FALSE)}

\* the member lists of up to n members
RECURSIVE MemberLists(_)
MemberLists(n) ==
    IF n = 0 THEN {<<>>}
    ELSE MemberLists(n - 1)
             \cup {Append(ms, info) : ms \in {l \in MemberLists(n - 1) : Len(l) = n - 1},
                                      info \in MemberPool}

\* what is at zip_path: an archive, a file that is no archive, an archive
\* with a broken directory, a file that cannot be read
ZipFiles ==
    {[kind |-> "zip", members |-> ms] : ms \in MemberLists(MaxMembers)}
        \cup {[kind |-> k, members |-> <<>>] : k \in {"not_zip", "corrupted", "unreadable"}}

\* sum(info.file_size for info in zip_ref.infolist())
RECURSIVE total_uncompressed_size(_)
total_uncompressed_size(members) ==
    IF members = <<>> THEN 0
    ELSE members[1].file_size + total_uncompressed_size(Tail(members))

\* process_zip_file has been called
InitZip ==
    /\ InitCalls({}, Inputs)
    /\ RcIdle
    /\ ImgIdle
    /\ PiIdle
    /\ TaskIdle
    /\ CacheIdle
    /\ CbIdle
    /\ RlIdle
    /\ zip_pc = "called"
    /\ zip_path \in ZipFiles
    /\ zip_i = 0
    /\ extracted_files = <<>>
    /\ metadata = NewMetadata
    /\ zip_results = <<>>
    /\ zip_response = NoZipResponse

\* what a step on an archive leaves alone
ZipFrame ==
    UNCHANGED <<icVars, rcVars, imgVars, piVars, taskVars, cacheVars, cbVars, rlVars,
                zip_path>>

\* a ValueError raised by extract_and_validate: no except clause of
\* extract_and_validate or of process_zip_file names it
Raised(exc) == [outcome |-> "raised", success |-> FALSE, error |-> exc]

\* a dictionary returned by process_zip_file
Returned(success, error) == [outcome |-> "dict", success |-> success, error |-> error]

\* if not zipfile.is_zipfile(zip_path): raise ValueError("Invalid ZIP file")
RejectNotZip ==
    /\ zip_pc = "called"
    /\ zip_path.kind = "not_zip"
    /\ zip_response' = Raised("ValueError")
    /\ zip_pc' = "done"
    /\ UNCHANGED <<zip_i, extracted_files, metadata, zip_results>>
    /\ ZipFrame

\* ZipFile raises BadZipFile: raise ValueError("Corrupted ZIP file") from e
RejectCorrupted ==
    /\ zip_pc = "called"
    /\ zip_path.kind = "corrupted"
    /\ zip_response' = Raised("ValueError")
    /\ zip_pc' = "done"
    /\ UNCHANGED <<zip_i, extracted_files, metadata, zip_results>>
    /\ ZipFrame

\* the file cannot be read: the OSError is raised again and the except
\* clause of process_zip_file returns the failure dictionary
FailUnreadable ==
    /\ zip_pc = "called"
    /\ zip_path.kind = "unreadable"
    /\ zip_response' = Returned(FALSE, "OSError")
    /\ zip_pc' = "done"
    /\ UNCHANGED <<zip_i, extracted_files, metadata, zip_results>>
    /\ ZipFrame

\* the members expand to more than MAX_ZIP_EXTRACT_SIZE: raise ValueError
RejectTooLarge ==
    /\ zip_pc = "called"
    /\ zip_path.kind = "zip"
    /\ total_uncompressed_size(zip_path.members) > MAX_ZIP_EXTRACT_SIZE
    /\ metadata' = [metadata EXCEPT !.total_files = Len(zip_path.members)]
    /\ zip_response' = Raised("ValueError")
    /\ zip_pc' = "done"
    /\ UNCHANGED <<zip_i, extracted_files, zip_results>>
    /\ ZipFrame

\* the archive is opened and passes the size check
OpenArchive ==
    /\ zip_pc = "called"
    /\ zip_path.kind = "zip"
    /\ total_uncompressed_size(zip_path.members) <= MAX_ZIP_EXTRACT_SIZE
    /\ metadata' = [metadata EXCEPT !.total_files = Len(zip_path.members),
                                    !.total_size = total_uncompressed_size(zip_path.members)]
    /\ zip_pc' = "loop"
    /\ UNCHANGED <<zip_i, extracted_files, zip_results, zip_response>>
    /\ ZipFrame

HasMember == zip_pc = "loop" /\ zip_i < Len(zip_path.members)

\* the member the for loop looks at next
file_info == zip_path.members[zip_i + 1]

\* if file_info.is_dir(): continue
SkipDirectory ==
    /\ HasMember
    /\ is_dir(file_info)
    /\ zip_i' = zip_i + 1
    /\ UNCHANGED <<zip_pc, extracted_files, metadata, zip_results, zip_response>>
    /\ ZipFrame

\* hidden and system files are counted as skipped
SkipHidden ==
    /\ HasMember
    /\ ~is_dir(file_info)
    /\ is_hidden_or_system(file_info.filename)
    /\ metadata' = [metadata EXCEPT !.skipped_files = @ + 1]
    /\ zip_i' = zip_i + 1
    /\ UNCHANGED <<zip_pc, extracted_files, zip_results, zip_response>>
    /\ ZipFrame

\* if not self.is_valid_file(filename): counted as skipped
SkipUnsupported ==
    /\ HasMember
    /\ ~is_dir(file_info)
    /\ ~is_hidden_or_system(file_info.filename)
    /\ ~is_valid_file(file_info.filename)
    /\ metadata' = [metadata EXCEPT !.skipped_files = @ + 1]
    /\ zip_i' = zip_i + 1
    /\ UNCHANGED <<zip_pc, extracted_files, zip_results, zip_response>>
    /\ ZipFrame

\* the member can be extracted
Extractable ==
    /\ HasMember
    /\ ~is_dir(file_info)
    /\ ~is_hidden_or_system(file_info.filename)
    /\ is_valid_file(file_info.filename)

\* variant of the limit test: one file too many
LimitReachedLate == Len(extracted_files) > MAX_FILES_IN_ZIP

\* if len(extracted_files) >= settings.MAX_FILES_IN_ZIP
LimitReached == Len(extracted_files) >= MAX_FILES_IN_ZIP

\* the file count limit is reached: an error is noted, break, and the list
\* is returned
StopAtLimit ==
    /\ Extractable
    /\ LimitReached
    /\ metadata' = [metadata EXCEPT !.errors = Append(@, "Maximum file limit reached")]
    /\ zip_pc' = "extracted"
    /\ UNCHANGED <<zip_i, extracted_files, zip_results, zip_response>>
    /\ ZipFrame

\* zip_ref.extract(file_info, extract_dir) and the bookkeeping after it
ExtractMember ==
    /\ Extractable
    /\ ~LimitReached
    /\ file_info.extracts
    /\ extracted_files' = Append(extracted_files, file_info.filename)
    /\ metadata' = [metadata EXCEPT !.valid_files = @ + 1]
    /\ zip_i' = zip_i + 1
    /\ UNCHANGED <<zip_pc, zip_results, zip_response>>
    /\ ZipFrame

\* zip_ref.extract raises OSError or BadZipFile: noted, continue
ExtractMemberFails ==
    /\ Extractable
    /\ ~LimitReached
    /\ ~file_info.extracts
    /\ metadata' = [metadata EXCEPT !.errors = Append(@, "Failed to extract")]
    /\ zip_i' = zip_i + 1
    /\ UNCHANGED <<zip_pc, extracted_files, zip_results, zip_response>>
    /\ ZipFrame

\* the for loop is over: return extracted_files, metadata
ReturnExtracted ==
    /\ zip_pc = "loop"
    /\ zip_i = Len(zip_path.members)
    /\ zip_pc' = "extracted"
    /\ UNCHANGED <<zip_i, extracted_files, metadata, zip_results, zip_response>>
    /\ ZipFrame

\* if not extracted_files: the failure dictionary
NoValidFiles ==
    /\ zip_pc = "extracted"
    /\ extracted_files = <<>>
    /\ zip_response' = Returned(FALSE, "No valid files found in ZIP archive")
    /\ zip_pc' = "done"
    /\ UNCHANGED <<zip_i, extracted_files, metadata, zip_results>>
    /\ ZipFrame

\* processor.process_input on the next extracted file; its result, with
\* the file name, is appended
ProcessFile ==
    /\ zip_pc = "extracted"
    /\ Len(zip_results) < Len(extracted_files)
    /\ \E ok \in BOOLEAN :
          zip_results' = Append(zip_results,
                                [success |-> ok,
                                 filename |-> basename(extracted_files[Len(zip_results) + 1])])
    /\ UNCHANGED <<zip_pc, zip_i, extracted_files, metadata, zip_response>>
    /\ ZipFrame

\* the summary is compiled and returned
ReturnSummary ==
    /\ zip_pc = "extracted"
    /\ extracted_files # <<>>
    /\ Len(zip_results) = Len(extracted_files)
    /\ zip_response' = Returned(TRUE, "")
    /\ zip_pc' = "done"
    /\ UNCHANGED <<zip_i, extracted_files, metadata, zip_results>>
    /\ ZipFrame

NextZip ==
    \/ RejectNotZip
    \/ RejectCorrupted
    \/ FailUnreadable
    \/ RejectTooLarge
    \/ OpenArchive
    \/ SkipDirectory
    \/ SkipHidden
    \/ SkipUnsupported
    \/ StopAtLimit
    \/ ExtractMember
    \/ ExtractMemberFails
    \/ ReturnExtracted
    \/ NoValidFiles
    \/ ProcessFile
    \/ ReturnSummary

\* one call of process_zip_file
SpecZip == InitZip /\ [][NextZip]_vars

\* ------------------------------------------------------------------------
\* CacheManager (app/cache_manager.py); the per-type switches
\* (ENABLE_TEXT_CACHING and the like) are on
\* ------------------------------------------------------------------------
\* the most calls a run makes
MaxCacheCalls == 3

\* the hashes and partial keys of the calls
CacheIds == {"h1", "h2"}

\* the values callers store
CacheValues == {"v1", "v2"}

\* f"{cache_type}:{hash}"
CacheKey(cache_type, id) == [prefix |-> cache_type, id |-> id]

CacheKeys == {CacheKey(t, id) : t \in CacheTypes, id \in CacheIds}

\* json.dumps and json.loads
Dumps(value) == <<"json", value>>

Loads(string) == string[2]

\* a manager has been created; Redis holds nothing
InitCache ==
    /\ InitCalls({}, Inputs)
    /\ RcIdle
    /\ ImgIdle
    /\ PiIdle
    /\ TaskIdle
    /\ ZipIdle
    /\ CbIdle
    /\ RlIdle
    /\ cache_config \in [ENABLE_CACHING : BOOLEAN, redis_client : BOOLEAN]
    /\ redis_store = [k \in CacheKeys |-> "nil"]
    /\ cache_stats = NewCacheStats
    /\ cache_calls = 0
    /\ cache_last = NoCacheCall

\* what a call on the manager leaves alone
CacheFrame ==
    UNCHANGED <<icVars, rcVars, imgVars, piVars, taskVars, zipVars, cbVars, rlVars,
                cache_config>>

\* if not ENABLE_CACHING or not self.redis_client
CacheOff == ~cache_config.ENABLE_CACHING \/ ~cache_config.redis_client

\* self.cache_stats[f'{cache_type}_hits'] += 1 raises KeyError when the
\* dictionary has no such counter
HasHitsCounter(cache_type) == cache_type \in DOMAIN cache_stats.type_hits

\* _get_cache through get_text_cache, ..., get_file_cache: a hit counts and
\* returns the decoded value, a miss counts and returns None; an exception
\* on the way is caught and None is returned
GetCache(cache_type, id) ==
    /\ cache_calls < MaxCacheCalls
    /\ cache_calls' = cache_calls + 1
    /\ LET cached == redis_store[CacheKey(cache_type, id)]
           returned ==
               IF CacheOff \/ cached = "nil" \/ ~HasHitsCounter(cache_type) THEN "None"
               ELSE Loads(cached)
       IN /\ cache_last' = [op |-> "get", type |-> cache_type, id |-> id,
                            returned |-> returned]
          /\ cache_stats' =
                IF CacheOff THEN cache_stats
                ELSE IF cached = "nil"
                     THEN [cache_stats EXCEPT !.misses = @ + 1]
                     ELSE IF HasHitsCounter(cache_type)
                          THEN [cache_stats EXCEPT !.hits = @ + 1,
                                                   !.type_hits[cache_type] = @ + 1]
                          ELSE [cache_stats EXCEPT !.hits = @ + 1]
    /\ UNCHANGED redis_store
    /\ CacheFrame

\* _set_cache through set_text_cache, ..., set_file_cache: setex of the
\* encoded value under the key of the type
SetCache(cache_type, id, value) ==
    /\ cache_calls < MaxCacheCalls
    /\ cache_calls' = cache_calls + 1
    /\ redis_store' =
          IF CacheOff THEN redis_store
          ELSE [redis_store EXCEPT ![CacheKey(cache_type, id)] = Dumps(value)]
    /\ cache_last' = [op |-> "set", type |-> cache_type, id |-> id,
                      returned |-> IF CacheOff THEN "False" ELSE "True"]
    /\ UNCHANGED cache_stats
    /\ CacheFrame

\* clear_cache(cache_type): the keys of the pattern are deleted, all keys
\* when no type is given ("")
ClearCache(cache_type) ==
    /\ cache_calls < MaxCacheCalls
    /\ cache_calls' = cache_calls + 1
    /\ redis_store' =
          IF ~cache_config.redis_client THEN redis_store
          ELSE [k \in CacheKeys |->
                   IF cache_type = "" \/ k.prefix = cache_type THEN "nil"
                   ELSE redis_store[k]]
    /\ cache_last' = [op |-> "clear", type |-> cache_type, id |-> "",
                      returned |-> IF cache_config.redis_client THEN "True" ELSE "False"]
    /\ UNCHANGED cache_stats
    /\ CacheFrame

\* Redis drops an entry whose time to live is over
ExpireEntry(key) ==
    /\ redis_store[key] # "nil"
    /\ redis_store' = [redis_store EXCEPT ![key] = "nil"]
    /\ cache_last' = NoCacheCall
    /\ UNCHANGED <<cache_stats, cache_calls>>
    /\ CacheFrame

NextCache ==
    \/ \E t \in CacheTypes, id \in CacheIds : GetCache(t, id)
    \/ \E t \in CacheTypes, id \in CacheIds, v \in CacheValues : SetCache(t, id, v)
    \/ \E t \in CacheTypes \cup {""} : ClearCache(t)
    \/ \E k \in CacheKeys : ExpireEntry(k)

SpecCache == InitCache /\ [][NextCache]_vars

\* ------------------------------------------------------------------------
\* CircuitBreakerMiddleware (app/middleware.py); time in whole seconds
\* ------------------------------------------------------------------------
\* failure_threshold, scaled down (default 5)
failure_threshold == 2

\* timeout in seconds, scaled down (default 60)
timeout == 2

\* the clock of the model stops here
MaxTime == 4

\* the most requests that enter dispatch
MaxRequests == 5

\* requests go through the circuit breaker
InitBreaker ==
    /\ InitCalls({}, Inputs)
    /\ RcIdle
    /\ ImgIdle
    /\ PiIdle
    /\ TaskIdle
    /\ ZipIdle
    /\ CacheIdle
    /\ RlIdle
    /\ NewCircuitBreaker
    /\ cb_now = 0

\* what a step of the circuit breaker leaves alone
BreakerFrame ==
    UNCHANGED <<icVars, rcVars, imgVars, piVars, taskVars, zipVars, cacheVars, rlVars>>

\* a second passes
Tick ==
    /\ cb_now < MaxTime
    /\ cb_now' = cb_now + 1
    /\ UNCHANGED <<failures, last_failure_time, circuit_open, cb_in_flight, cb_arrivals,
                   cb_rejected, cb_log>>
    /\ BreakerFrame

\* requests entered so far, all endpoints
RECURSIVE SumOver(_, _)
SumOver(f, S) ==
    IF S = {} THEN 0
    ELSE LET x == CHOOSE y \in S : TRUE IN f[x] + SumOver(f, S \ {x})

MayArrive == SumOver(cb_arrivals, Endpoints) < MaxRequests

\* variant: the circuit closes when the timeout is reached
TimeoutPassedEarly(endpoint) == cb_now - last_failure_time[endpoint] >= timeout

\* time.time() - self.last_failure_time[endpoint] > self.timeout
TimeoutPassed(endpoint) == cb_now - last_failure_time[endpoint] > timeout

\* dispatch with the circuit open and the timeout not passed: 503
RejectWhileOpen(endpoint) ==
    /\ MayArrive
    /\ circuit_open[endpoint]
    /\ ~TimeoutPassed(endpoint)
    /\ cb_arrivals' = [cb_arrivals EXCEPT ![endpoint] = @ + 1]
    /\ cb_rejected' = [cb_rejected EXCEPT ![endpoint] = @ + 1]
    /\ UNCHANGED <<failures, last_failure_time, circuit_open, cb_now, cb_in_flight, cb_log>>
    /\ BreakerFrame

\* dispatch with the circuit open and the timeout passed: the circuit is
\* closed, the count reset, and the request goes to call_next
CloseAndPass(endpoint) ==
    /\ MayArrive
    /\ circuit_open[endpoint]
    /\ TimeoutPassed(endpoint)
    /\ circuit_open' = [circuit_open EXCEPT ![endpoint] = FALSE]
    /\ failures' = [failures EXCEPT ![endpoint] = 0]
    /\ cb_arrivals' = [cb_arrivals EXCEPT ![endpoint] = @ + 1]
    /\ cb_in_flight' = [cb_in_flight EXCEPT ![endpoint] = @ + 1]
    /\ cb_log' = [cb_log EXCEPT ![endpoint] = Append(@, "close")]
    /\ UNCHANGED <<last_failure_time, cb_now, cb_rejected>>
    /\ BreakerFrame

\* dispatch with the circuit closed: the request goes to call_next
PassWhileClosed(endpoint) ==
    /\ MayArrive
    /\ ~circuit_open[endpoint]
    /\ cb_arrivals' = [cb_arrivals EXCEPT ![endpoint] = @ + 1]
    /\ cb_in_flight' = [cb_in_flight EXCEPT ![endpoint] = @ + 1]
    /\ UNCHANGED <<failures, last_failure_time, circuit_open, cb_now, cb_rejected, cb_log>>
    /\ BreakerFrame

\* call_next returns a response with status_code < 500
RespondSuccess(endpoint) ==
    /\ cb_in_flight[endpoint] > 0
    /\ cb_in_flight' = [cb_in_flight EXCEPT ![endpoint] = @ - 1]
    /\ failures' = [failures EXCEPT ![endpoint] = 0]
    /\ cb_log' = [cb_log EXCEPT ![endpoint] = Append(@, "success")]
    /\ UNCHANGED <<last_failure_time, circuit_open, cb_now, cb_arrivals, cb_rejected>>
    /\ BreakerFrame

\* call_next returns a response with status_code >= 500, or raises
\* HTTPException, RuntimeError or ValueError: _record_failure
RespondFailure(endpoint) ==
    /\ cb_in_flight[endpoint] > 0
    /\ cb_in_flight' = [cb_in_flight EXCEPT ![endpoint] = @ - 1]
    /\ failures' = [failures EXCEPT ![endpoint] = @ + 1]
    /\ last_failure_time' = [last_failure_time EXCEPT ![endpoint] = cb_now]
    /\ circuit_open' = [circuit_open EXCEPT ![endpoint] =
                           IF failures[endpoint] + 1 >= failure_threshold THEN TRUE ELSE @]
    /\ cb_log' = [cb_log EXCEPT ![endpoint] = Append(@, "failure")]
    /\ UNCHANGED <<cb_now, cb_arrivals, cb_rejected>>
    /\ BreakerFrame

\* call_next raises an exception of another class: nothing is recorded
RaiseUnrecorded(endpoint) ==
    /\ cb_in_flight[endpoint] > 0
    /\ cb_in_flight' = [cb_in_flight EXCEPT ![endpoint] = @ - 1]
    /\ UNCHANGED <<failures, last_failure_time, circuit_open, cb_now, cb_arrivals,
                   cb_rejected, cb_log>>
    /\ BreakerFrame

NextBreaker ==
    \/ Tick
    \/ \E e \in Endpoints : RejectWhileOpen(e)
    \/ \E e \in Endpoints : CloseAndPass(e)
    \/ \E e \in Endpoints : PassWhileClosed(e)
    \/ \E e \in Endpoints : RespondSuccess(e)
    \/ \E e \in Endpoints : RespondFailure(e)
    \/ \E e \in Endpoints : RaiseUnrecorded(e)

SpecBreaker == InitBreaker /\ [][NextBreaker]_vars

\* ------------------------------------------------------------------------
\* RateLimitMiddleware (app/middleware.py); time in units of 10 seconds
\* ------------------------------------------------------------------------
\* requests_per_minute, scaled down (default 100)
requests_per_minute == 2

\* burst, scaled down (default 200)
burst == 1

\* the 60 of minute_ago = current_time - 60, in units of 10 seconds
MinuteWindow == 6

\* the 10 of current_time - 10, in units of 10 seconds
BurstWindow == 1

\* the clock of the model stops here
MaxRlTime == 6

\* the most requests that enter dispatch
MaxRlRequests == 5

\* the paths dispatch lets through without a look at the limits
ExemptPaths == {"/health", "/", "/docs", "/openapi.json"}

\* request.url.path of the requests
Paths30 == {"/process", "/health"}

\* requests go through the rate limiter
InitLimiter ==
    /\ InitCalls({}, Inputs)
    /\ RcIdle
    /\ ImgIdle
    /\ PiIdle
    /\ TaskIdle
    /\ ZipIdle
    /\ CacheIdle
    /\ CbIdle
    /\ NewRateLimiter
    /\ rl_now = 0

\* what a step of the rate limiter leaves alone
LimiterFrame ==
    UNCHANGED <<icVars, rcVars, imgVars, piVars, taskVars, zipVars, cacheVars, cbVars>>

\* 10 seconds pass
LimiterTick ==
    /\ rl_now < MaxRlTime
    /\ rl_now' = rl_now + 1
    /\ UNCHANGED <<requests, rl_admitted, rl_rejected, rl_count, rl_last>>
    /\ LimiterFrame

\* [req_time for req_time in times if req_time > bound]
After(times, bound) == LET later(t) == t > bound IN SelectSeq(times, later)

\* self.requests[client_ip] after the old requests are cleaned out
Cleaned(client_ip) == After(requests[client_ip], rl_now - MinuteWindow)

\* variant: the limit is passed before a request is turned away
RateLimitExceededLate(client_ip) == Len(Cleaned(client_ip)) > requests_per_minute

\* if len(self.requests[client_ip]) >= self.requests_per_minute
RateLimitExceeded(client_ip) == Len(Cleaned(client_ip)) >= requests_per_minute

\* if len(recent_requests) >= self.burst
BurstLimitExceeded(client_ip) ==
    Len(After(Cleaned(client_ip), rl_now - BurstWindow)) >= burst

\* a request to an exempt path goes to call_next at once
PassExempt(client_ip, path) ==
    /\ rl_count < MaxRlRequests
    /\ path \in ExemptPaths
    /\ rl_count' = rl_count + 1
    /\ rl_last' = [client |-> client_ip, path |-> path, status |-> 200]
    /\ UNCHANGED <<requests, rl_now, rl_admitted, rl_rejected>>
    /\ LimiterFrame

\* the rate limit is reached: the list is cleaned and 429 is raised
RejectRate(client_ip, path) ==
    /\ rl_count < MaxRlRequests
    /\ path \notin ExemptPaths
    /\ RateLimitExceeded(client_ip)
    /\ requests' = [requests EXCEPT ![client_ip] = Cleaned(client_ip)]
    /\ rl_count' = rl_count + 1
    /\ rl_last' = [client |-> client_ip, path |-> path, status |-> 429]
    /\ rl_rejected' = [rl_rejected EXCEPT ![client_ip] = @ + 1]
    /\ UNCHANGED <<rl_now, rl_admitted>>
    /\ LimiterFrame

\* the burst limit is reached: the list is cleaned and 429 is raised
RejectBurst(client_ip, path) ==
    /\ rl_count < MaxRlRequests
    /\ path \notin ExemptPaths
    /\ ~RateLimitExceeded(client_ip)
    /\ BurstLimitExceeded(client_ip)
    /\ requests' = [requests EXCEPT ![client_ip] = Cleaned(client_ip)]
    /\ rl_count' = rl_count + 1
    /\ rl_last' = [client |-> client_ip, path |-> path, status |-> 429]
    /\ rl_rejected' = [rl_rejected EXCEPT ![client_ip] = @ + 1]
    /\ UNCHANGED <<rl_now, rl_admitted>>
    /\ LimiterFrame

\* within both limits: the time is appended and the request goes to
\* call_next
Admit(client_ip, path) ==
    /\ rl_count < MaxRlRequests
    /\ path \notin ExemptPaths
    /\ ~RateLimitExceeded(client_ip)
    /\ ~BurstLimitExceeded(client_ip)
    /\ requests' = [requests EXCEPT ![client_ip] = Append(Cleaned(client_ip), rl_now)]
    /\ rl_admitted' = [rl_admitted EXCEPT ![client_ip] = Append(@, rl_now)]
    /\ rl_count' = rl_count + 1
    /\ rl_last' = [client |-> client_ip, path |-> path, status |-> 200]
    /\ UNCHANGED <<rl_now, rl_rejected>>
    /\ LimiterFrame

NextLimiter ==
    \/ LimiterTick
    \/ \E c \in Clients, p \in Paths30 : PassExempt(c, p)
    \/ \E c \in Clients, p \in Paths30 : RejectRate(c, p)
    \/ \E c \in Clients, p \in Paths30 : RejectBurst(c, p)
    \/ \E c \in Clients, p \in Paths30 : Admit(c, p)

SpecLimiter == InitLimiter /\ [][NextLimiter]_vars

\* ------------------------------------------------------------------------
\* Properties of identify_corrections
\* ------------------------------------------------------------------------
Done(c) == pc[c] = "done"

\* the invocation went past the quick check and ran the alignment
Aligned(c) == differ_calls[c] > 0

InResult(c) == {result[c][i] : i \in 1..Len(result[c])}

\* the words of the ops with one of the given codes, in order
TokensOf(d, codes) ==
    LET hasCode(op) == op.code \in codes
        sel == SelectSeq(d, hasCode)
    IN [i \in 1..Len(sel) |-> sel[i].token]

MatchedOps(d) == Len(TokensOf(d, {" "}))

\* C1: texts that are equal after trimming leading and trailing whitespace
\* (in particular identical texts) return the empty list, for every k, and
\* the alignment is never run for them.
C1_IdenticalTextsReturnEmpty ==
    \A c \in Calls :
        Strip(original_text[c]) = Strip(corrected_text[c])
            => /\ differ_calls[c] = 0
               /\ diff[c] = <<>>
               /\ result[c] = <<>>
               /\ pc[c] \in {"called", "done"}

\* an invocation with texts that differ only by surrounding whitespace has
\* returned
C1_Witness ==
    \E c \in Calls :
        /\ Done(c)
        /\ original_text[c] # corrected_text[c]
        /\ Strip(original_text[c]) = Strip(corrected_text[c])
        /\ Len(Strip(original_text[c])) >= 3

\* C2: every returned Correction has two different words, both non-empty
\* after trimming, and two different contexts.
C2_FilterSoundness ==
    \A c \in Calls : \A x \in InResult(c) :
        /\ x.original_word # x.corrected_word
        /\ Strip(x.original_word) # <<>>
        /\ Strip(x.corrected_word) # <<>>
        /\ x.original_context # x.corrected_context

\* a returned non-empty list for an alignment that has substitutions, a pure
\* insertion and a pure deletion
C2_Witness ==
    \E c \in Calls :
        /\ Done(c)
        /\ Len(result[c]) >= 1
        /\ \E i \in 1..Len(diff[c]) : \E j \in 1..Len(diff[c]) :
              /\ i + 1 < j
              /\ diff[c][i].code = "+" /\ diff[c][i + 1].code = " "
              /\ diff[c][j].code = "-"
              /\ j = Len(diff[c]) \/ diff[c][j + 1].code = " "

\* number of words of a context string
WordCount(context) == Len(SelectSeq(FindAllTokens(context), IsWordToken))

\* the (start, end, len(words)) of every window the drain loop computes for
\* the given buffers
RECURSIVE DrainWindows(_, _, _, _, _, _, _)
DrainWindows(ob, cb, owi, cwi, ow, cw, k) ==
    IF ob = <<>> /\ cb = <<>> THEN {}
    ELSE LET orig == IF ob # <<>> THEN Head(ob) ELSE <<>>
             corr == IF cb # <<>> THEN Head(cb) ELSE <<>>
             ob2 == IF ob # <<>> THEN Tail(ob) ELSE ob
             cb2 == IF cb # <<>> THEN Tail(cb) ELSE cb
             oidx == OrigIndexInWords(owi, ob2)
             cidx == CorrIndexInWords(cwi, cb2)
             wo == <<ContextStart(oidx, k), ContextEnd(ow, oidx, k), Len(ow)>>
             wc == <<ContextStart(cidx, k), ContextEnd(cw, cidx, k), Len(cw)>>
         IN (IF orig # <<>> \/ corr = <<>> THEN {wo} ELSE {})
            \cup (IF corr # <<>> \/ orig = <<>> THEN {wc} ELSE {})
            \cup DrainWindows(ob2, cb2, owi, cwi, ow, cw, k)

\* the invocation is about to drain its buffers (at a match or after the loop)
AboutToDrain(c) ==
    /\ pc[c] = "scan"
    /\ pos[c] = Len(diff[c]) \/ diff[c][pos[c] + 1].code = " "

\* C3: each context of a returned Correction has at most 2*k + 1 words, and
\* every window start and end computed while draining lies in 0..len(words)
\* of the sequence it slices.
C3_ContextBounds ==
    \A c \in Calls :
        /\ \A x \in InResult(c) :
              /\ WordCount(x.original_context) <= 2 * context_words[c] + 1
              /\ WordCount(x.corrected_context) <= 2 * context_words[c] + 1
        /\ AboutToDrain(c) =>
              \A w \in DrainWindows(original_buffer[c], corrected_buffer[c],
                                    original_word_index[c], corrected_word_index[c],
                                    original_words[c], corrected_words[c],
                                    context_words[c]) :
                  /\ 0 <= w[1] /\ w[1] <= w[3]
                  /\ 0 <= w[2] /\ w[2] <= w[3]

\* edits at the start, in the middle and at the end of a sequence, the middle
\* one with a full window of 2*k + 1 words, k >= 1
C3_Witness ==
    \E c \in Calls :
        /\ Done(c)
        /\ context_words[c] >= 1
        /\ Len(result[c]) >= 3
        /\ \E x \in InResult(c) :
              WordCount(x.original_context) = 2 * context_words[c] + 1
        /\ result[c][1].original_word = original_words[c][1]
        /\ result[c][Len(result[c])].original_word
              = original_words[c][Len(original_words[c])]

\* words[max(0, p-k) : min(len, p+k+1)] joined by single spaces, p 0-based
TrueWindow(words, p, k) ==
    Join(SubSeq(words, Max(1, p - k + 1), Min(Len(words), p + k + 1)))

\* the pairs of every edit run between consecutive matching blocks: the
\* j-th unmatched original word with the j-th unmatched corrected word, each
\* with the window around its own position; (i, j) is where the run starts
RECURSIVE ExpectedPairs(_, _, _, _, _, _)
ExpectedPairs(ow, cw, blocks, i, j, k) ==
    IF blocks = <<>> THEN <<>>
    ELSE LET ai == Head(blocks)[1]
             bj == Head(blocks)[2]
             size == Head(blocks)[3]
             n == Min(ai - i, bj - j)
             pair(t) == Correction(ow[i + t], cw[j + t],
                                   TrueWindow(ow, i + t - 1, k),
                                   TrueWindow(cw, j + t - 1, k))
             shown(x) == /\ x.original_word # x.corrected_word
                         /\ x.original_context # x.corrected_context
         IN SelectSeq([t \in 1..n |-> pair(t)], shown)
            \o ExpectedPairs(ow, cw, Tail(blocks), ai + size, bj + size, k)

\* C4: each paired word of an edit run gets the window around its own index:
\* the returned list is the list of pairs (j-th buffered original word, j-th
\* buffered corrected word) of all runs, in order, each with
\* original_words[max(0,p-k) : min(len,p+k+1)] and the same slice of
\* corrected_words around q, p and q being the true indices of the two words
\* (pairs with equal contexts are not shown).
C4_OwnWindowPerPair ==
    \A c \in Calls :
        (Done(c) /\ Aligned(c)) =>
            result[c] = ExpectedPairs(original_words[c], corrected_words[c],
                                      get_matching_blocks(original_words[c],
                                                          corrected_words[c]),
                                      0, 0, context_words[c])

\* a run of two pairs drained at a match and a run of two pairs drained at
\* the end of the stream, the four pairs with four different windows
C4_Witness ==
    \E c \in Calls :
        /\ Done(c)
        /\ Len(result[c]) = 4
        /\ MatchedOps(diff[c]) = 1
        /\ diff[c][5].code = " "
        /\ diff[c][Len(diff[c])].code # " "
        /\ \A i \in 1..4 : \A j \in 1..4 :
              i # j => /\ result[c][i].original_context # result[c][j].original_context
                       /\ result[c][i].corrected_context # result[c][j].corrected_context

IsScenario1(c) ==
    /\ original_text[c] = Scenario1Original
    /\ corrected_text[c] = Scenario1Corrected
    /\ context_words[c] = 2

\* C5: identify_corrections("This are a test.", "This is a test.", 2) returns
\* exactly one Correction: "are" -> "is" with the contexts "this are a test"
\* and "this is a test".
C5_Scenario1 ==
    \A c \in Calls :
        (IsScenario1(c) /\ Done(c)) =>
            result[c] = <<Correction(<<"a", "r", "e">>, <<"i", "s">>,
                                     <<"t", "h", "i", "s", " ", "a", "r", "e", " ",
                                       "a", " ", "t", "e", "s", "t">>,
                                     <<"t", "h", "i", "s", " ", "i", "s", " ",
                                       "a", " ", "t", "e", "s", "t">>)>>

\* the scenario has run to its return through the alignment
C5_Witness == \E c \in Calls : IsScenario1(c) /\ Done(c) /\ Aligned(c)

SameArguments(c, d) ==
    /\ original_text[c] = original_text[d]
    /\ corrected_text[c] = corrected_text[d]
    /\ context_words[c] = context_words[d]

\* C6: invocations with identical arguments return identical lists, however
\* their steps are interleaved with each other and with invocations on other
\* inputs.
C6_Determinism ==
    \A c \in Calls : \A d \in Calls :
        (Done(c) /\ Done(d) /\ SameArguments(c, d)) => result[c] = result[d]

\* two invocations with the same arguments have both returned a non-empty list
C6_Witness ==
    \E c \in Calls : \E d \in Calls :
        /\ c # d
        /\ Done(c) /\ Done(d)
        /\ SameArguments(c, d)
        /\ result[c] # <<>>

\* length of a longest common subsequence of a[i..] and b[j..] (1-based)
RECURSIVE LCSFrom(_, _, _, _)
LCSFrom(a, b, i, j) ==
    IF i > Len(a) \/ j > Len(b) THEN 0
    ELSE IF a[i] = b[j] THEN 1 + LCSFrom(a, b, i + 1, j + 1)
    ELSE Max(LCSFrom(a, b, i + 1, j), LCSFrom(a, b, i, j + 1))

LCSLength(a, b) == LCSFrom(a, b, 1, 1)

\* C7 as claimed: the number of matched ops equals the LCS length of the two
\* word sequences.
C7_AlignmentIsLCS ==
    \A c \in Calls :
        Aligned(c) => MatchedOps(diff[c]) = LCSLength(original_words[c], corrected_words[c])

\* C7 amended: the ops are an edit script between the two word sequences
\* (the ' ' and '-' ops spell original_words, the ' ' and '+' ops spell
\* corrected_words), so the matched ops are a common subsequence and their
\* number is at most the LCS length.
C7_AlignmentIsCommonSubsequence ==
    \A c \in Calls :
        Aligned(c) =>
            /\ TokensOf(diff[c], {" ", "-"}) = original_words[c]
            /\ TokensOf(diff[c], {" ", "+"}) = corrected_words[c]
            /\ MatchedOps(diff[c]) <= LCSLength(original_words[c], corrected_words[c])

\* an alignment with fewer matches than the LCS, and with a replace hunk
C7_Witness ==
    \E c \in Calls :
        /\ Aligned(c)
        /\ MatchedOps(diff[c]) >= 1
        /\ MatchedOps(diff[c]) < LCSLength(original_words[c], corrected_words[c])

\* the word tokens of a text, letter case folded
FoldedWords(text) ==
    LET ws == SelectSeq(FindAllTokens(text), IsWordToken)
    IN [i \in 1..Len(ws) |-> [n \in 1..Len(ws[i]) |-> LowerChar(ws[i][n])]]

\* C8: texts with the same sequence of words after lowercasing (differing
\* only in letter case and separators) return the empty list, also when they
\* are not identical after trimming.
C8_CaseAndSeparatorsIgnored ==
    \A c \in Calls :
        (Done(c) /\ FoldedWords(original_text[c]) = FoldedWords(corrected_text[c]))
            => result[c] = <<>>

\* texts differing in case and punctuation only went through the alignment
C8_Witness ==
    \E c \in Calls :
        /\ Done(c)
        /\ Aligned(c)
        /\ FoldedWords(original_text[c]) = FoldedWords(corrected_text[c])
        /\ Len(FoldedWords(original_text[c])) >= 2
        /\ \E i \in 1..Len(original_text[c]) : original_text[c][i] \in Range(UpperChars)

\* number of entries of a list equal to x
Occurrences(list, x) == Cardinality({i \in 1..Len(list) : list[i] = x})

\* C9 as claimed: the returned list never contains two Corrections equal in
\* all four fields.
C9_NoDuplicates ==
    \A c \in Calls :
        \A i \in 1..Len(result[c]) : \A j \in 1..Len(result[c]) :
            i # j => result[c][i] # result[c][j]

\* C9 amended: the filter removes vacuous edits only; every drained pair
\* with two non-empty words is returned as often as it was drained, so equal
\* Corrections of a repeated substitution all stay in the list.
C9_FilterKeepsRepeatedEdits ==
    \A c \in Calls :
        Done(c) =>
            /\ \A x \in InResult(c) : \E i \in 1..Len(corrections[c]) : corrections[c][i] = x
            /\ \A i \in 1..Len(corrections[c]) :
                  (corrections[c][i].original_word # <<>>
                      /\ corrections[c][i].corrected_word # <<>>)
                  => Occurrences(result[c], corrections[c][i])
                        = Occurrences(corrections[c], corrections[c][i])

\* a returned list with the same Correction twice
C9_Witness ==
    \E c \in Calls :
        /\ Done(c)
        /\ \E i \in 1..Len(result[c]) : \E j \in 1..Len(result[c]) :
              i # j /\ result[c][i] = result[c][j]

\* ------------------------------------------------------------------------
\* Properties of reconstruct_with_highlighting on a tree
\* ------------------------------------------------------------------------
\* the text nodes of a tree that are rendered (not inside script or style)
RenderedTextNodes(tree) ==
    {i \in 1..Len(tree) : /\ tree[i].kind = "text"
                          /\ ParentName(tree, tree[i]) \notin {"script", "style"}}

\* the word tokens of a text that highlighting has to wrap
WordsToWrap(text, corrs) ==
    LET toks == FindAllTokens(text)
    IN {toks[i] : i \in {j \in 1..Len(toks) :
                            /\ IsWordToken(toks[j])
                            /\ \E n \in 1..Len(corrs) :
                                  /\ corrs[n].original_word # corrs[n].corrected_word
                                  /\ Lower(toks[j]) = Lower(corrs[n].original_word)}}

\* word w is the content of an emphasis element of the tree
IsEmphasised(tree, w) ==
    \E e \in 1..Len(tree) : \E t \in 1..Len(tree) :
        /\ tree[e].kind = "tag" /\ tree[e].name = "u"
        /\ tree[t].kind = "text" /\ tree[t].parent = tree[e].id
        /\ tree[t].text = w

\* C10 as claimed: after tree highlighting every word token of a rendered
\* text node whose lowercase form is an original_word of a Correction is the
\* content of an emphasis element of the tree (markup, not literal text),
\* and no other word is wrapped: every emphasis element that was not in the
\* document before holds such a word.
C10_MatchedWordsBecomeElements ==
    (rc_pc = "done" /\ rc_result = "soup") =>
        /\ \A i \in RenderedTextNodes(html_input) :
              \A w \in WordsToWrap(html_input[i].text, rc_corrections) :
                  IsEmphasised(soup, w)
        /\ \A e \in 1..Len(soup) :
              (soup[e].kind = "tag" /\ soup[e].name = "u"
                  /\ \A n \in 1..Len(html_input) : html_input[n].id # soup[e].id)
              => \E t \in 1..Len(soup) : \E i \in RenderedTextNodes(html_input) :
                    /\ soup[t].kind = "text" /\ soup[t].parent = soup[e].id
                    /\ soup[t].text \in WordsToWrap(html_input[i].text, rc_corrections)

\* The same statement restricted to the googlecolab.py function, whose loop
\* parses the rebuilt text before it replaces the node.
ParsedVariantWrapsInElements ==
    variant = "googlecolab" => C10_MatchedWordsBecomeElements

\* the app/processor.py function has returned a tree in which a text node
\* holds the characters of a marker
MarkerLeftAsText ==
    /\ rc_pc = "done"
    /\ variant = "processor"
    /\ \E t \in 1..Len(soup) :
          /\ soup[t].kind = "text"
          /\ FindMarkup(soup[t].text, OpenU, 1) <= Len(soup[t].text)

\* the identities of the nodes of a tree
IdsOf(tree) == {tree[i].id : i \in 1..Len(tree)}

\* the nodes of tree whose identity is in ids, in document order
Restrict(tree, ids) ==
    LET keep(n) == n.id \in ids
    IN SelectSeq(tree, keep)

\* the nodes of the document that highlighting has no reason to touch: the
\* elements, and the text nodes without a word of the set
UntouchableNodes ==
    {i \in 1..Len(html_input) :
        \/ html_input[i].kind = "tag"
        \/ WordsToWrap(html_input[i].text, rc_corrections) = {}}

ScriptOrStyleTexts ==
    {i \in 1..Len(html_input) :
        /\ html_input[i].kind = "text"
        /\ html_input[i].parent # 0
        /\ html_input[IndexOf(html_input, html_input[i].parent)].name \in {"script", "style"}}

\* C12: tree highlighting never modifies a text node whose parent is a
\* script or style element, also when the text has a word of the set: the
\* node is in the tree, unchanged, in every state of the call.
C12_ScriptAndStyleUntouched ==
    \A i \in ScriptOrStyleTexts : \E j \in 1..Len(soup) : soup[j] = html_input[i]

\* the call has returned, a text node under script or style has a word of
\* the set and was kept while another text node was replaced
C12_Witness ==
    /\ rc_pc = "done"
    /\ \E i \in ScriptOrStyleTexts :
          /\ WordsToWrap(html_input[i].text, rc_corrections) # {}
          /\ \E j \in 1..Len(soup) : soup[j] = html_input[i]
    /\ \E i \in 1..Len(soup) : soup[i].id \notin IdsOf(html_input)

\* ------------------------------------------------------------------------
\* Properties of reconstruct_with_highlighting on an image
\* ------------------------------------------------------------------------
\* C13: image highlighting never draws a rectangle for a detection whose
\* confidence is below the threshold: every rectangle drawn so far belongs
\* to a detection of the list with confidence >= 0.5.
C13_NoRectangleBelowThreshold ==
    \A r \in 1..Len(rectangles) :
        /\ rectangles[r].det \in 1..Len(original_ocr_results.items)
        /\ original_ocr_results.items[rectangles[r].det].confidence >= confidence_threshold

\* the image was returned with a rectangle on it, and the list has a
\* detection below the threshold whose text has a corrected word
C13_Witness ==
    /\ img_pc = "done"
    /\ img_result = "image"
    /\ rectangles # <<>>
    /\ \E d \in 1..Len(original_ocr_results.items) :
          /\ original_ocr_results.items[d].confidence < confidence_threshold
          /\ WordsToWrap(original_ocr_results.items[d].text, img_corrections) # {}

\* 0-based position of the first character of token j
RECURSIVE TokenStart(_, _)
TokenStart(toks, j) == IF j = 1 THEN 0 ELSE TokenStart(toks, j - 1) + Len(toks[j - 1])

\* the whole-word, case-insensitive occurrences of corrected original words
\* in a text, as <<start, length>>
WordOccurrences(text, corrs) ==
    LET toks == FindAllTokens(text)
    IN {<<TokenStart(toks, j), Len(toks[j])>> :
           j \in {t \in 1..Len(toks) : toks[t] \in WordsToWrap(text, corrs)}}

\* the coordinates of a polygon along one axis, as given
RawCoords(bbox, axis) == {bbox[i][axis] : i \in 1..Len(bbox)}

\* a/b = c/d for positive denominators
SameFraction(a, b, c, d) == a * d = c * b

\* rectangle r is the one the interpolation rule gives for the occurrence
\* occ of a text of the given length in the bounding rectangle
\* (x1, y1)-(x2, y2), whose coordinates are counted in unit-ths of a pixel
IsInterpolated(r, occ, text_length, x1, y1, x2, y2, unit) ==
    /\ SameFraction(r.x1_num, r.den,
                    x1 * text_length + occ[1] * (x2 - x1), unit * text_length)
    /\ SameFraction(r.x2_num, r.den,
                    x1 * text_length + (occ[1] + occ[2]) * (x2 - x1), unit * text_length)
    /\ r.y1 * unit = y1
    /\ r.y2 * unit = y2

\* the rectangles drawn for detection d that the rule gives for occ, the
\* bounding rectangle taken from the polygon coordinates as they are
RectanglesOfRawBox(d, occ) ==
    LET det == original_ocr_results.items[d]
    IN {r \in 1..Len(rectangles) :
           /\ rectangles[r].det = d
           /\ IsInterpolated(rectangles[r], occ, Len(det.text),
                             SetMin(RawCoords(det.bbox, 1)), SetMin(RawCoords(det.bbox, 2)),
                             SetMax(RawCoords(det.bbox, 1)), SetMax(RawCoords(det.bbox, 2)),
                             CoordUnit)}

\* the same, the bounding rectangle taken from the integer parts of the
\* polygon coordinates
RectanglesOfIntegerBox(d, occ) ==
    LET det == original_ocr_results.items[d]
    IN {r \in 1..Len(rectangles) :
           /\ rectangles[r].det = d
           /\ IsInterpolated(rectangles[r], occ, Len(det.text),
                             SetMin(RawCoords(det.bbox, 1)) \div CoordUnit,
                             SetMin(RawCoords(det.bbox, 2)) \div CoordUnit,
                             SetMax(RawCoords(det.bbox, 1)) \div CoordUnit,
                             SetMax(RawCoords(det.bbox, 2)) \div CoordUnit,
                             1)}

\* the detections of the list at or above the threshold
ConfidentDetections ==
    {d \in 1..Len(original_ocr_results.items) :
        original_ocr_results.items[d].confidence >= confidence_threshold}

\* the call has returned the image it drew on
ImageReturned == img_pc = "done" /\ img_result = "image"

\* scenario 5: the single detection and a Correction for "are"
IsScenario5 ==
    /\ original_ocr_results = [supplied |-> TRUE, items |-> <<ScenarioDetection>>]
    /\ img_corrections = <<Correction(WordAre, WordIs, <<>>, <<>>)>>

\* C14 as claimed: on the returned image, for every detection with
\* confidence >= threshold and every whole-word, case-insensitive occurrence
\* of a corrected original word in its text exactly one rectangle is drawn
\* with x1 = rect.x1 + match_start * char_width, x2 = x1 + match_length *
\* char_width and the vertical extent of the rectangle, rect being the
\* min/max of the polygon coordinates; in scenario 5 exactly one rectangle
\* is drawn.
C14_RectanglePerOccurrence ==
    ImageReturned =>
        /\ \A d \in ConfidentDetections :
              \A occ \in WordOccurrences(original_ocr_results.items[d].text, img_corrections) :
                  Cardinality(RectanglesOfRawBox(d, occ)) = 1
        /\ IsScenario5 => Len(rectangles) = 1

\* C14, amended: the same with rect the min/max of the integer parts of the
\* polygon coordinates (x_coords and y_coords are built with int()).
C14_RectanglePerOccurrenceOfIntegerBox ==
    ImageReturned =>
        /\ \A d \in ConfidentDetections :
              \A occ \in WordOccurrences(original_ocr_results.items[d].text, img_corrections) :
                  Cardinality(RectanglesOfIntegerBox(d, occ)) = 1
        /\ IsScenario5 => Len(rectangles) = 1

\* the image was returned for a list that holds a detection with corners
\* between two pixels and two occurrences of a corrected word, each with
\* its rectangle
C14_Witness ==
    /\ ImageReturned
    /\ \E d \in ConfidentDetections :
          /\ \E i \in 1..Len(original_ocr_results.items[d].bbox) :
                original_ocr_results.items[d].bbox[i][1] % CoordUnit # 0
          /\ Cardinality(WordOccurrences(original_ocr_results.items[d].text,
                                         img_corrections)) = 2
          /\ \A occ \in WordOccurrences(original_ocr_results.items[d].text, img_corrections) :
                Cardinality(RectanglesOfIntegerBox(d, occ)) = 1

\* scenario 5 has returned its image with one rectangle on it
Scenario5Drawn == ImageReturned /\ IsScenario5 /\ Len(rectangles) = 1

\* C15 as claimed: when no detection list is supplied the call ends with
\* an outcome of its own, which is neither the outcome of a call without
\* corrections (the image) nor the outcome of the other highlighting
\* failures (None), whether or not the corrections list is empty.
C15_MissingDetectionsIsDistinctError ==
    (img_pc = "done" /\ ~original_ocr_results.supplied) =>
        img_result \notin {"image", "None"}

\* no detections and no corrections: the original image is returned
MissingDetectionsReturnImage ==
    /\ img_pc = "done"
    /\ ~original_ocr_results.supplied
    /\ img_corrections = <<>>
    /\ img_result = "image"

\* no detections, some corrections: None, as when the image cannot be opened
MissingDetectionsReturnNone ==
    /\ img_pc = "done"
    /\ ~original_ocr_results.supplied
    /\ img_corrections # <<>>
    /\ img_result = "None"

\* ------------------------------------------------------------------------
\* identify_corrections called with a negative context_words
\* ------------------------------------------------------------------------
\* C16 as claimed: an invocation with a negative context_words is rejected
\* at the call boundary: it never runs the alignment and never returns a
\* list.
C16_NegativeContextRejected ==
    \A c \in Calls :
        context_words[c] < 0 => (differ_calls[c] = 0 /\ pc[c] # "done")

\* an invocation with a negative context_words has returned a Correction
NegativeContextReturnsCorrection ==
    \E c \in Calls : context_words[c] < 0 /\ pc[c] = "done" /\ result[c] # <<>>

\* ------------------------------------------------------------------------
\* Failures while a text node is rebuilt
\* ------------------------------------------------------------------------
\* the text a node is replaced with, computed from the document as passed
RebuiltText(i) ==
    Concat(NewContent(FindAllTokens(html_input[i].text),
                      OriginalCorrectedWordsSet(rc_corrections)))

\* the rendered text nodes of the document that have a word of the set
MatchedNodes ==
    {i \in RenderedTextNodes(html_input) :
        WordsToWrap(html_input[i].text, rc_corrections) # {}}

\* the matched nodes whose replacement cannot be built: the function parses
\* the rebuilt text and the parser rejects it
FailingNodes ==
    {i \in MatchedNodes : variant = "googlecolab" /\ RejectedByParser(RebuiltText(i))}

\* C17 as claimed: a failure while one text node is rebuilt or replaced is
\* local: when the call has ended the tree is returned, the failing node is
\* in it as it was, and every other matched node has been replaced by its
\* highlighted content.
C17_NodeFailureIsLocal ==
    (rc_pc = "done" /\ rc_corrections # <<>> /\ FailingNodes # {}) =>
        /\ rc_result = "soup"
        /\ \A i \in FailingNodes : \E j \in 1..Len(soup) : soup[j] = html_input[i]
        /\ \A i \in MatchedNodes \ FailingNodes :
              html_input[i].id \notin IdsOf(soup)

\* the call has ended with None after the first matched node failed, and
\* the matched node after it was never visited
TraversalAborted ==
    /\ rc_pc = "done"
    /\ rc_result = "None"
    /\ \E i \in MatchedNodes \ FailingNodes :
          /\ \E j \in 1..Len(soup) : soup[j] = html_input[i]
          /\ \E f \in FailingNodes : f < i

\* ------------------------------------------------------------------------
\* Properties of process_input
\* ------------------------------------------------------------------------
\* the positions of an event in the list of invoked collaborators
PositionsOf(e) == {i \in 1..Len(events) : events[i] = e}

\* the run has got as far as the correction model
ReachedCorrection ==
    \/ pi_pc \in {"corrected", "identifying", "highlighting"}
    \/ pi_pc = "done" /\ response.kind \in {"image", "no_content"}

\* the run has got as far as the highlighting
ReachedHighlighting ==
    \/ pi_pc = "highlighting"
    \/ pi_pc = "done" /\ response.kind \in {"image", "no_content"}

SuccessWithoutContent ==
    /\ pi_pc = "done"
    /\ img_result = "None"
    /\ response.success

\* ------------------------------------------------------------------------
\* Further properties of identify_corrections
\* ------------------------------------------------------------------------
WordDont == <<"d", "o", "n", "t">>

\* the invocation identify_corrections("I dont know.", "I don't know.", 1)
IsApostropheCall(c) ==
    /\ original_text[c] = Scenario3Original
    /\ corrected_text[c] = Scenario3Corrected
    /\ context_words[c] = 1

\* C19: identify_corrections("I dont know.", "I don't know.", 1) returns
\* at least one Correction whose original_word is "dont"; the apostrophe
\* is a separator, so the corrected words are i, don, t, know.
C19_ApostropheScenario ==
    \A c \in Calls :
        IsApostropheCall(c) =>
            /\ Aligned(c) =>
                  corrected_words[c] = <<<<"i">>, <<"d", "o", "n">>, <<"t">>,
                                         <<"k", "n", "o", "w">>>>
            /\ Done(c) =>
                  \E i \in 1..Len(result[c]) : result[c][i].original_word = WordDont

\* the invocation has returned the Correction dont -> don
C19_Witness ==
    \E c \in Calls :
        /\ IsApostropheCall(c)
        /\ Done(c)
        /\ \E i \in 1..Len(result[c]) :
              /\ result[c][i].original_word = WordDont
              /\ result[c][i].corrected_word = <<"d", "o", "n">>

\* the ops the scan of invocation c has been through
ScannedOps(c) == SubSeq(diff[c], 1, pos[c])

\* how many of the ops have one of the codes
CountOps(d, codes) == Cardinality({i \in 1..Len(d) : d[i].code \in codes})

\* the ops after the last match of d
RECURSIVE SinceLastMatch(_)
SinceLastMatch(d) ==
    IF d = <<>> \/ d[Len(d)].code = " " THEN <<>>
    ELSE Append(SinceLastMatch(SubSeq(d, 1, Len(d) - 1)), d[Len(d)])

\* the scan of invocation c is over
ScanEnded(c) == pos[c] = Len(diff[c])

\* C20: while the ops are scanned every op consumes exactly one word (a
\* match one of each side, a delete one original word, an insert one
\* corrected word, a '?' line none): each cursor is the number of ops of
\* its side scanned so far, never exceeds the length of its word list and
\* equals it when the scan has ended; the buffers hold exactly the unmatched
\* words scanned since the last match, so they are empty after every match
\* and every unmatched word belongs to one edit run; after the last drain
\* they are empty.
C20_CursorsAndBuffers ==
    \A c \in Calls :
        Aligned(c) =>
            /\ original_word_index[c] = CountOps(ScannedOps(c), {"-", " "})
            /\ corrected_word_index[c] = CountOps(ScannedOps(c), {"+", " "})
            /\ original_word_index[c] <= Len(original_words[c])
            /\ corrected_word_index[c] <= Len(corrected_words[c])
            /\ ScanEnded(c) =>
                  /\ original_word_index[c] = Len(original_words[c])
                  /\ corrected_word_index[c] = Len(corrected_words[c])
            /\ pc[c] = "scan" =>
                  /\ original_buffer[c] = TokensOf(SinceLastMatch(ScannedOps(c)), {"-"})
                  /\ corrected_buffer[c] = TokensOf(SinceLastMatch(ScannedOps(c)), {"+"})
            /\ pc[c] \in {"filter", "done"} =>
                  /\ ScanEnded(c)
                  /\ original_buffer[c] = <<>>
                  /\ corrected_buffer[c] = <<>>

\* the scan has just passed a match that closed an edit run (one deleted
\* word, two inserted words, one '?' line between them)
C20_Witness ==
    \E c \in Calls :
        /\ pc[c] = "scan"
        /\ pos[c] > 0
        /\ diff[c][pos[c]].code = " "
        /\ CountOps(ScannedOps(c), {"-"}) >= 1
        /\ CountOps(ScannedOps(c), {"+"}) >= 2
        /\ CountOps(ScannedOps(c), {"?"}) >= 1
        /\ original_word_index[c] = Len(original_words[c])
        /\ corrected_word_index[c] = Len(corrected_words[c])
        /\ original_buffer[c] = <<>>
        /\ corrected_buffer[c] = <<>>

\* ------------------------------------------------------------------------
\* reconstruct_with_highlighting without corrections
\* ------------------------------------------------------------------------
\* C21: a call with an empty corrections list returns the original content
\* unchanged: for 'html' the content passed in, with no text node visited
\* or replaced; for 'image' the original image with no rectangle; for
\* content that can be read the result is never None.
C21_NoCorrectionsReturnsOriginal ==
    /\ (rc_pc = "done" /\ rc_corrections = <<>>) =>
          /\ rc_result = "soup"
          /\ soup = html_input
          /\ text_nodes = <<>>
    /\ (img_pc = "done" /\ img_corrections = <<>>) =>
          /\ rectangles = <<>>
          /\ image_loads => img_result = "image"

\* a call without corrections has returned a document that has a word of
\* the scenario in it
C21_Witness ==
    /\ rc_pc = "done"
    /\ rc_corrections = <<>>
    /\ \E i \in 1..Len(html_input) : html_input[i].text = TextThisAreWrong

\* a call without corrections has returned an image whose detections have
\* confident text
NoCorrectionsImageReturned ==
    /\ img_pc = "done"
    /\ img_corrections = <<>>
    /\ image_loads
    /\ original_ocr_results.supplied
    /\ Len(original_ocr_results.items) > 0

\* ------------------------------------------------------------------------
\* process_input on a path handle_input rejects
\* ------------------------------------------------------------------------
\* nothing is at the path, or its extension is not an allowed one
IsRejectedPath(path) ==
    \/ ~path.is_file
    \/ Lower(path.extension) \notin ALLOWED_IMAGE_EXTENSIONS \cup ALLOWED_HTML_EXTENSIONS

\* C22: a run on a path that is not an existing file, or whose extension is
\* neither an allowed image nor an allowed HTML extension, is answered with
\* success False, an error message and the error kind as input_type
\* ('file_not_found' when there is no file, 'unknown_file_type' otherwise);
\* no extraction, correction, alignment or highlighting runs.
C22_RejectedPathIsAnError ==
    (pi_pc # "idle" /\ IsRejectedPath(input_source_path)) =>
        /\ events = <<>>
        /\ readtext_calls = 0
        /\ \A c \in Calls : pc[c] = "idle" /\ differ_calls[c] = 0
        /\ img_pc = "idle"
        /\ pi_pc \in {"called", "done"}
        /\ pi_pc = "done" =>
              /\ response.success = FALSE
              /\ response.error # ""
              /\ response.input_type =
                    IF input_source_path.is_file THEN "unknown_file_type"
                    ELSE "file_not_found"

\* a run on a missing file with an image extension has been answered
C22_Witness ==
    /\ pi_pc = "done"
    /\ ~input_source_path.is_file
    /\ Lower(input_source_path.extension) \in ALLOWED_IMAGE_EXTENSIONS
    /\ response.input_type = "file_not_found"

\* a run on an existing file of another type has been answered
UnknownTypeAnswered ==
    /\ pi_pc = "done"
    /\ input_source_path.is_file
    /\ response.input_type = "unknown_file_type"

\* ------------------------------------------------------------------------
\* The task when processing fails
\* ------------------------------------------------------------------------
\* every attempt made so far has failed
EveryAttemptFailed ==
    \A i \in 1..Len(task_attempts) : task_attempts[i] # "succeeds"

\* C23 as claimed: when processing fails on every attempt the task is
\* attempted at most 1 + max_retries times and then ends with a result
\* that has success False and an error, not with an exception.
C23_FailingTaskYieldsFailureResult ==
    /\ EveryAttemptFailed => Len(task_attempts) <= 1 + max_retries
    /\ (task_pc = "ended" /\ EveryAttemptFailed) => task_outcome = "failure_result"

\* the number of attempts is bounded by 1 + max_retries
AttemptsBounded == Len(task_attempts) <= 1 + max_retries

\* the task ends
TaskTerminates == <>(task_pc = "ended")

\* the file was missing at every one of 1 + max_retries attempts and the
\* task has ended with the exception of the last attempt
MissingFileEndsWithException ==
    /\ task_pc = "ended"
    /\ Len(task_attempts) = 1 + max_retries
    /\ \A i \in 1..Len(task_attempts) : task_attempts[i] = "file_missing"
    /\ task_outcome = "exception"

\* ------------------------------------------------------------------------
\* extract_and_validate
\* ------------------------------------------------------------------------
\* extract_and_validate has returned its list and metadata
ExtractionReturned ==
    \/ zip_pc = "extracted"
    \/ zip_pc = "done" /\ zip_response.outcome = "dict" /\ zip_path.kind = "zip"

\* the name is one of a member that may be extracted: no directory, no
\* hidden or system file, and of an allowed extension
MayBeExtracted(filename) ==
    /\ filename # <<>>
    /\ filename[Len(filename)] # "/"
    /\ basename(filename)[1] # "."
    /\ "__MACOSX" \notin Range(filename)
    /\ Lower(splitext_ext(filename)) \in ALLOWED_IMAGE_EXTENSIONS \cup ALLOWED_HTML_EXTENSIONS

\* C24: extract_and_validate extracts only members that are not
\* directories, not hidden or system files and of an allowed image or HTML
\* extension, and never more than MAX_FILES_IN_ZIP of them; on return
\* metadata.valid_files is the number of returned paths and
\* valid_files + skipped_files <= total_files.
C24_OnlyValidMembersExtracted ==
    /\ \A i \in 1..Len(extracted_files) :
          /\ MayBeExtracted(extracted_files[i])
          /\ \E j \in 1..Len(zip_path.members) :
                zip_path.members[j].filename = extracted_files[i]
    /\ Len(extracted_files) <= MAX_FILES_IN_ZIP
    /\ ExtractionReturned =>
          /\ metadata.valid_files = Len(extracted_files)
          /\ metadata.valid_files + metadata.skipped_files <= metadata.total_files

\* the extraction has returned after it stopped at the file limit
C24_Witness ==
    /\ zip_pc = "extracted"
    /\ Len(extracted_files) = MAX_FILES_IN_ZIP
    /\ zip_i < Len(zip_path.members)
    /\ metadata.errors # <<>>

\* the extraction has returned one file of an archive that also held a
\* directory and a skipped file
SkippedAndExtracted ==
    /\ zip_pc = "extracted"
    /\ metadata.valid_files = 1
    /\ metadata.skipped_files = 1
    /\ metadata.total_files = 3
    /\ \E j \in 1..Len(zip_path.members) : is_dir(zip_path.members[j])

\* ------------------------------------------------------------------------
\* process_zip_file on a bad archive
\* ------------------------------------------------------------------------
\* the file is no archive, is corrupted, or expands beyond the limit
IsBadArchive ==
    \/ zip_path.kind \in {"not_zip", "corrupted"}
    \/ zip_path.kind = "zip"
           /\ total_uncompressed_size(zip_path.members) > MAX_ZIP_EXTRACT_SIZE

\* C25 as claimed: on a bad archive process_zip_file returns a dictionary
\* with success False and an error, it does not raise, and no member is
\* extracted or processed.
C25_BadArchiveReturnsFailure ==
    (zip_pc # "idle" /\ IsBadArchive) =>
        /\ extracted_files = <<>>
        /\ zip_results = <<>>
        /\ zip_pc = "done" =>
              /\ zip_response.outcome = "dict"
              /\ zip_response.success = FALSE
              /\ zip_response.error # ""

\* on a bad archive no member is extracted or processed
BadArchiveExtractsNothing ==
    (zip_pc # "idle" /\ IsBadArchive) => (extracted_files = <<>> /\ zip_results = <<>>)

\* process_zip_file has raised the ValueError of an archive that expands
\* beyond the limit
TooLargeRaises ==
    /\ zip_pc = "done"
    /\ zip_path.kind = "zip"
    /\ total_uncompressed_size(zip_path.members) > MAX_ZIP_EXTRACT_SIZE
    /\ zip_response = Raised("ValueError")

\* process_zip_file has raised the ValueError of a file that is no archive
NotZipRaises ==
    /\ zip_pc = "done"
    /\ zip_path.kind = "not_zip"
    /\ zip_response = Raised("ValueError")

\* ------------------------------------------------------------------------
\* One substituted word
\* ------------------------------------------------------------------------
\* the positions at which the word sequences of the texts of c differ
DifferingPositions(c) ==
    {i \in 1..Len(WordsOf(original_text[c])) :
        WordsOf(original_text[c])[i] # WordsOf(corrected_text[c])[i]}

\* the word sequences of c have the same length and differ at one position
IsSingleSubstitution(c) ==
    /\ Len(WordsOf(original_text[c])) = Len(WordsOf(corrected_text[c]))
    /\ Cardinality(DifferingPositions(c)) = 1

\* C26 as claimed: when the word sequences have the same length and differ
\* at exactly one position i, the invocation returns exactly one
\* Correction, whose words are the lowercase words at position i of the
\* two sequences, for every k >= 0, repeated words or not.
C26_SingleSubstitutionReported ==
    \A c \in Calls :
        (Done(c) /\ IsSingleSubstitution(c) /\ context_words[c] >= 0) =>
            /\ Len(result[c]) = 1
            /\ \A i \in DifferingPositions(c) :
                  /\ result[c][1].original_word = WordsOf(original_text[c])[i]
                  /\ result[c][1].corrected_word = WordsOf(corrected_text[c])[i]

\* 'a a' corrected to 'b a' has returned no Correction
SubstitutionMissed ==
    \E c \in Calls :
        /\ Done(c)
        /\ WordsOf(original_text[c]) = <<<<"a">>, <<"a">>>>
        /\ WordsOf(corrected_text[c]) = <<<<"b">>, <<"a">>>>
        /\ result[c] = <<>>

\* a single substitution of words that occur nowhere else has returned its
\* one Correction
SubstitutionReported ==
    \E c \in Calls :
        /\ Done(c)
        /\ IsSingleSubstitution(c)
        /\ Len(WordsOf(original_text[c])) >= 3
        /\ Len(result[c]) = 1
        /\ \A i \in DifferingPositions(c) :
              result[c][1].original_word = WordsOf(original_text[c])[i]

\* ------------------------------------------------------------------------
\* Rebuilt text nodes against the original text
\* ------------------------------------------------------------------------
\* the text without the markers '<u>' and '</u>'
RECURSIVE WithoutMarkers(_)
WithoutMarkers(text) ==
    IF text = <<>> THEN <<>>
    ELSE IF Len(text) >= 3 /\ SubSeq(text, 1, 3) = <<"<", "u", ">">>
         THEN WithoutMarkers(SubSeq(text, 4, Len(text)))
         ELSE IF Len(text) >= 4 /\ SubSeq(text, 1, 4) = <<"<", "/", "u", ">">>
              THEN WithoutMarkers(SubSeq(text, 5, Len(text)))
              ELSE <<Head(text)>> \o WithoutMarkers(Tail(text))

\* the positions of the tree whose text node was replaced
ReplacedPositions ==
    {j \in 1..Len(soup) :
        /\ j <= Len(html_input)
        /\ soup[j].kind = "text"
        /\ soup[j].id # html_input[j].id}

\* C27: re-tokenizing a text node loses nothing: the word and separator
\* tokens concatenated are the node's text, and for every node the
\* function of app/processor.py has replaced, the replacement text without
\* the inserted markers is the original text character for character
\* (separators, other words and the letter case of the marked words).
C27_RetokenizingIsLossless ==
    /\ \A i \in 1..Len(html_input) :
          html_input[i].kind = "text" =>
              Concat(FindAllTokens(html_input[i].text)) = html_input[i].text
    /\ variant = "processor" =>
          /\ Len(soup) = Len(html_input)
          /\ \A j \in ReplacedPositions :
                /\ html_input[j].kind = "text"
                /\ WithoutMarkers(soup[j].text) = html_input[j].text

\* a node with a word in capitals has been replaced and the word is marked
\* as it was written
C27_Witness ==
    /\ variant = "processor"
    /\ rc_pc = "done"
    /\ \E j \in ReplacedPositions :
          /\ html_input[j].text = TextAreTwice
          /\ soup[j].text = Underlined(<<"A", "R", "E">>) \o <<" ">>
                                \o Underlined(<<"a", "r", "e">>)

\* ------------------------------------------------------------------------
\* The file cache
\* ------------------------------------------------------------------------
\* the last call was a get of the given type, with caching on
GotFrom(cache_type) ==
    /\ cache_last.op = "get"
    /\ cache_last.type = cache_type
    /\ ~CacheOff

\* what Redis holds for the key of the last call: the value of the most
\* recent set that has not expired or been cleared, None without one
HeldForLast ==
    LET cached == redis_store[CacheKey(cache_last.type, cache_last.id)]
    IN IF cached = "nil" THEN "None" ELSE cached[2]

\* C28 as claimed: with caching on and a Redis client, get_file_cache(h)
\* returns the value of the most recent set_file_cache(h, v) that has not
\* expired or been cleared, None for a hash never set, whatever was set in
\* the other cache types.
C28_FileCacheReturnsLastSet ==
    GotFrom("result") => cache_last.returned = HeldForLast

\* the caches of the other types return the value of the most recent set
TypedCachesReturnLastSet ==
    \A t \in CacheTypes \ {"result"} : GotFrom(t) => cache_last.returned = HeldForLast

\* get_file_cache has returned None for a hash that was set and is held
FileCacheHitReturnsNone ==
    /\ GotFrom("result")
    /\ HeldForLast # "None"
    /\ cache_last.returned = "None"
    /\ cache_stats.hits > 0

\* ------------------------------------------------------------------------
\* The circuit breaker
\* ------------------------------------------------------------------------
\* the number of failures at the end of the log, after the last success
\* and the last closing
RECURSIVE TrailingFailures(_)
TrailingFailures(log) ==
    IF log = <<>> \/ log[Len(log)] # "failure" THEN 0
    ELSE 1 + TrailingFailures(SubSeq(log, 1, Len(log) - 1))

\* in this step a request enters dispatch for the endpoint
Arrives(e) == cb_arrivals'[e] = cb_arrivals[e] + 1

\* this step leaves everything the middleware keeps for the endpoint alone
Untouched(e) ==
    /\ failures'[e] = failures[e]
    /\ last_failure_time'[e] = last_failure_time[e]
    /\ circuit_open'[e] = circuit_open[e]
    /\ cb_rejected'[e] = cb_rejected[e]

\* the circuit opens only in a step that records a failure for the
\* endpoint which completes failure_threshold consecutive ones
OpensAtThreshold(e) ==
    (~circuit_open[e] /\ circuit_open'[e]) =>
        /\ cb_log'[e] = Append(cb_log[e], "failure")
        /\ TrailingFailures(cb_log'[e]) >= failure_threshold

\* a request arriving while the circuit is open and within timeout
\* seconds of the last recorded failure is answered with 503 and not passed
\* downstream
RejectedWhileOpen(e) ==
    (Arrives(e) /\ circuit_open[e] /\ cb_now - last_failure_time[e] <= timeout) =>
        /\ cb_rejected'[e] = cb_rejected[e] + 1
        /\ cb_in_flight'[e] = cb_in_flight[e]
        /\ circuit_open'[e]

\* a request arriving after the timeout closes the circuit, resets the
\* count and is passed downstream
ClosedAfterTimeout(e) ==
    (Arrives(e) /\ circuit_open[e] /\ cb_now - last_failure_time[e] > timeout) =>
        /\ ~circuit_open'[e]
        /\ failures'[e] = 0
        /\ cb_in_flight'[e] = cb_in_flight[e] + 1
        /\ cb_rejected'[e] = cb_rejected[e]

\* what happens at one endpoint leaves the others alone
OthersUntouched(e) ==
    (cb_arrivals'[e] # cb_arrivals[e] \/ cb_in_flight'[e] # cb_in_flight[e]) =>
        \A o \in Endpoints \ {e} : Untouched(o)

\* C29: per endpoint, the circuit is open once failure_threshold
\* consecutive failures (with no success in between) have been recorded and
\* opens in no other way; a request arriving while it is open and within
\* timeout seconds of the last recorded failure gets 503 and is not passed
\* downstream; the first request after the timeout closes the circuit,
\* resets the count to 0 and is passed downstream; failures of one endpoint
\* never touch the circuit of another.
C29_CircuitBreaker ==
    /\ [](\A e \in Endpoints :
             /\ TrailingFailures(cb_log[e]) >= failure_threshold => circuit_open[e]
             /\ failures[e] = TrailingFailures(cb_log[e]))
    /\ [][\A e \in Endpoints :
             /\ OpensAtThreshold(e)
             /\ RejectedWhileOpen(e)
             /\ ClosedAfterTimeout(e)
             /\ OthersUntouched(e)]_vars

\* one endpoint's circuit opened, rejected a request and was closed by a
\* later request that is now downstream, while the other endpoint had a
\* failure of its own and stayed closed
C29_Witness ==
    \E e \in Endpoints, o \in Endpoints :
        /\ e # o
        /\ cb_rejected[e] >= 1
        /\ Len(cb_log[e]) > failure_threshold
        /\ cb_log[e][Len(cb_log[e])] = "close"
        /\ ~circuit_open[e]
        /\ cb_in_flight[e] = 1
        /\ failures[o] = 1
        /\ ~circuit_open[o]


\* ------------------------------------------------------------------------
\* C30: the rate limiter
\* ------------------------------------------------------------------------
\* the requests of a client that went on to call_next on a limited path
\* in the window of the given length that ends at time t
AdmittedWithin(client_ip, t, window) ==
    {i \in DOMAIN rl_admitted[client_ip] :
        /\ rl_admitted[client_ip][i] > t - window
        /\ rl_admitted[client_ip][i] <= t}

\* no window of a minute holds more than requests_per_minute admitted
\* requests of a client, and no window of 10 seconds more than burst
WithinLimits ==
    \A c \in Clients, t \in 0..rl_now :
        /\ Cardinality(AdmittedWithin(c, t, MinuteWindow)) <= requests_per_minute
        /\ Cardinality(AdmittedWithin(c, t, BurstWindow)) <= burst

\* the step is a request that entered dispatch
Dispatched == rl_count' = rl_count + 1

\* a request answered 429 is not recorded against its client
RejectedNotRecorded ==
    (Dispatched /\ rl_last'.status = 429) =>
        /\ rl_admitted' = rl_admitted
        /\ requests'[rl_last'.client] = Cleaned(rl_last'.client)

\* a request to an exempt path is admitted and counted nowhere
ExemptNotCounted ==
    (Dispatched /\ rl_last'.path \in ExemptPaths) =>
        /\ rl_last'.status = 200
        /\ requests' = requests
        /\ rl_admitted' = rl_admitted

\* a request of one client leaves what is kept for the others as it was
OtherClientsUntouched ==
    Dispatched =>
        \A c \in Clients \ {rl_last'.client} :
            /\ requests'[c] = requests[c]
            /\ rl_admitted'[c] = rl_admitted[c]

\* C30: per client, at most requests_per_minute requests to limited paths
\* are admitted in any window of 60 seconds and at most burst in any
\* window of 10 seconds (windows open at their start, as the code's
\* req_time > current_time - 60 makes them); a request over a limit is
\* answered 429 and not recorded; requests to the exempt paths are always
\* admitted and never counted; the requests of one client change nothing
\* that is kept for another.
C30_RateLimiter ==
    /\ []WithinLimits
    /\ [][RejectedNotRecorded /\ ExemptNotCounted /\ OtherClientsUntouched]_vars

\* a client was answered 429, and after its window slid it was admitted
\* again on a limited path, with more than requests_per_minute admitted
\* requests in all, while another client was admitted too
C30_Witness ==
    \E c \in Clients, d \in Clients :
        /\ c # d
        /\ rl_rejected[c] >= 1
        /\ Len(rl_admitted[c]) > requests_per_minute
        /\ rl_last = [client |-> c, path |-> "/process", status |-> 200]
        /\ Len(rl_admitted[d]) >= 1

====
